---- MODULE Spec2Model ----
(***************************************************************************)
(* Verification model of the probing observability agent.                  *)
(*                                                                         *)
(* Part I   External table store: chunked columns, eviction by element     *)
(*          count, concurrent append / append_many and snapshot reads.     *)
(*          The store is native code outside the Python sources; it is     *)
(*          modelled from sections 3, 4.A, 4.B and 5 of the specification. *)
(* Part II  Table registry, the dataclass table decorator                  *)
(*          (python/probing/core/table.py) and the example extension       *)
(*          (python/probing/ext/example.py).                               *)
(* Part III Torch extension init / deinit (python/probing/ext/torch.py)    *)
(*          and hook installation (python/probing/profiling/torch).        *)
(* Part IV  load_extension (python/probing/core/engine.py).                *)
(* Part V   Virtual python tables, modelled from section 4.C.              *)
(* Part VI  Process / script activator (python/probing_hook.py).           *)
(* Part VII REPL executor (python/probing/magics/__init__.py).             *)
(* Part VIII Sampler of the torch probe (profiling/torch_probe.py).        *)
(* Part IX  Construction of the tracer (python/probing/ext/torch.py).      *)
(* Part X   Errors inside hook callbacks.                                  *)
(* Part XI  Span poller (probing/python/src/pycode/torch_profiling.py).    *)
(* Part XII Import hook (python/probing/hooks/import_hook.py).             *)
(* Part XIII Hooks of the torch probe in any order (profiling/types.py).   *)
(* Part XIV Memory tracer (python/probing/torch/tracer).                   *)
(* Part XV  Timer and pending list of the torch probe.                     *)
(* Part XVI Two tracers in one process.                                    *)
(* Part XVII RDMA data collector (python/probing/rdma/rdma_collector.py).  *)
(***************************************************************************)
EXTENDS Integers, Sequences, FiniteSets, TLC

VARIABLES
    \* ---- Part I: external table store
    chunk_size,         \* config.chunk_size of the table
    discard_threshold,  \* config.discard_threshold (BaseElementCount)
    rows_appended,      \* monotonic counter of committed rows
    heap,               \* chunk id -> [data, sealed, free]
    columns,            \* column index -> queue of chunk ids (head first)
    wlock,              \* writer holding the table's write lock, or NoWriter
    wpc,                \* writer -> "idle" | "commit"
    wbatch,             \* writer -> rows being committed
    wcol,               \* writer -> next column to advance
    wret,               \* writer -> outcome of its last append
    snaps,              \* reader -> snapshot held (or NoSnap)
    taken,              \* reader -> listing returned by its last take
    log,                \* history: every committed row, in commit order
    \* ---- Part II: table registry, dataclass tables, extensions
    registry,           \* table name -> table (or NoTable)
    next_tid,           \* identity given to the next table storage created
    cache,              \* core/table.py `cache`: class -> table handle
    defined,            \* classes whose @table decoration has completed
    active,             \* the set of active extensions
    ret,                \* outcome of the last call made by user code
    stmt,               \* the last SET statement and its outcome
    \* ---- Part III: torch extension
    hooks,              \* ext/torch.py `hooks`: optimizers already instrumented
    HOOK_CACHE,         \* profiling/torch `HOOK_CACHE`: object -> hook handles
    torch_hooks,        \* hooks registered on modules and optimizers
    global_post_hooks,  \* registered global optimizer-step post hooks
    OPTIM_ITER,         \* profiling/torch/step.py `OPTIM_ITER`
    next_tracer,        \* identity of the next TorchProbe constructed
    PB_COLL_TRACE,      \* environment variable read by collective_hook
    coll_traced,        \* trace_all_collectives has been called
    calls,              \* history: the init / deinit calls so far
    seen,               \* history: optimizers stepped before the last deinit
    stepped,            \* history: optimizers stepped since the last call
    \* ---- Part IV: load_extension
    sys_modules,        \* sys.modules: the modules imported so far
    attrs,              \* module -> attribute name -> the object bound to it
    loaded,             \* the last load_extension call and its outcome
    \* ---- Part V: virtual python tables
    pyvalue,            \* the value V the table expression evaluated to
    pytable,            \* the one-shot table materialised from V
    \* ---- Part VI: process/script activator
    environ,            \* os.environ: the value of PROBING, or Unset
    argv0,              \* sys.argv[0]
    host,               \* the launch: PROBING as received, what imports and the init script do
    probe_value,        \* probing_hook.py `probe_value`
    current_script,     \* probing_hook.py `current_script`
    script_init,        \* probing_hook.py `script_init`
    apc,                \* position of the activator in probing_hook.py
    todo,               \* statements init_probing has still to run in its branch
    attached,           \* `import probing` has run in this process
    events,             \* history: what init_probing did, in order
    escaped,            \* an exception left the activator module
    \* ---- Part VII: REPL executor
    buffer,             \* InteractiveConsole.buffer: lines pushed, not yet run
    iopub,              \* messages waiting on the kernel client's iopub channel
    reply,              \* what the last push returned
    last,               \* history: what the last pushed source was and did
    npush,              \* history: number of lines pushed
    \* ---- Part VIII: sampler of the torch probe
    mode,               \* Sampler.mode
    rate,               \* Sampler.rate, in percent
    mod_names,          \* Sampler.mod_names: the ids registered, in insertion order
    mod_queue,          \* Sampler.mod_queue
    curr_idx,           \* Sampler.curr_idx
    curr_mod,           \* Sampler.curr_mod
    finalized,          \* Sampler.finalized
    sampled_step,       \* Sampler.sampled_step
    MODULE_CALL_OFFSET, \* profiling/types.py `MODULE_CALL_OFFSET`
    CURRENT_MODULE,     \* profiling/types.py `CURRENT_MODULE`
    CURRENT_STAGE,      \* profiling/types.py `CURRENT_STAGE`
    curr_step,          \* TorchProbe.curr_step
    hpc,                \* the next hook of the running training step
    sampled_now,        \* history: modules sampled in the running step
    visits,             \* history: per steady step, its mode, rate and sampled modules
    full_rate,          \* history: the rate has been 1.0 all along
    last_set,           \* history: the last set_sampling_mode call
    \* ---- Part IX: construction of the tracer
    torch_env,          \* os.environ: the PROBING_TORCH_* variables
    probe,              \* the TorchProbe built at the first optimizer step
    configured,         \* history: the settings read when the tracer was built
    \* ---- Part X: errors inside hook callbacks
    maxtry_left,        \* try_catch `_maxtry` of each decorated callback
    hcall,              \* history: the last callback run and the statement that raised
    host_raised,        \* the last callback raised to its caller
    \* ---- Part XI: span poller
    spans,              \* Tracer.spans: the stack of spans begun and not ended
    next_span,          \* identity of the next span
    span_queue,         \* SpanPoller.queue
    poller_span,        \* SpanPoller.run `span`: the span in the poller's hand, or NoSpan
    EVENT_COUNT,        \* torch_profiling.py `EVENT_COUNT`
    SKIP_COUNT,         \* torch_profiling.py `SKIP_COUNT`
    add_maxtry,         \* try_catch `_maxtry` of SpanPoller.add
    profiled,           \* rows appended to torch_profiling, as span ids
    last_add,           \* history: the last SpanPoller.add call
    open_calls,         \* history: the hooked module calls now open, outermost first
    accepted,           \* history: the spans the queue accepted, in order
    last_end,           \* history: the last post hook, the call it closed, the span it popped
    \* ---- Part XII: import hook
    meta_path,          \* sys.meta_path
    original_meta_path, \* ProbingFinder.original_meta_path
    register,           \* import_hook.py `register`: module name -> callback
    triggered,          \* import_hook.py `triggered`
    modules_loaded,     \* sys.modules, among HookModules
    import_log,         \* history: per module, what its import found and did
    last_reg,           \* history: the last register_module_callback call
    \* ---- Part XIII: hooks of the torch probe in any order
    last_hook,          \* history: the last hook run, what it saw and what it did
    row_steps,          \* history: (training step, step value) of the rows made
    tstep,              \* history: post_step hooks completed
    \* ---- Part XIV: memory tracer
    memtracer,          \* the MemTracer object: its fields, or NoTracer
    tracer_globals,     \* torch/tracer/types.py globals and the step module's OPTIM_ITER
    mem_last,           \* history: the last hook of the memory tracer
    mem_rows,           \* history: (training step, step value) of the rows saved
    mem_tstep,          \* history: post_step hooks completed
    \* ---- Part XV: timer and pending list of the torch probe
    timer_events,       \* Timer.events: (module, stage group) -> start event
    pending,            \* TorchProbe.pending
    trace,              \* rows appended to the trace table, in order
    execs,              \* history: per (module, stage group), the executions opened
    made,               \* history: rows made so far
    psteps,             \* history: post_step hooks completed
    last_timed,         \* history: the last hook and what post_step found pending
    \* ---- Part XVI: two tracers in one process
    tracers,            \* the TorchProbe objects: curr_step and finalized of each
    last_inst,          \* history: the last hook and what each tracer saw around it
    \* ---- Part XVII: RDMA data collector
    rdma_env,           \* os.environ: RDMA_COLLECTOR_ENABLED
    rdma_enabled,       \* self._config["enabled"]
    stop_event,         \* self._stop_event is set
    rdma_thread,        \* self._thread: the last thread created, or NoThread
    rdma_created,       \* the number of threads created
    thread_pc,          \* where each collector thread is in _collector_loop
    rdma_calls          \* history: refresh_config_from_env and shutdown calls returned

storeVars == <<chunk_size, discard_threshold, rows_appended, heap, columns,
               wlock, wpc, wbatch, wcol, wret, snaps, taken, log>>

regVars == <<registry, next_tid, cache, defined, active, ret, stmt>>

torchVars == <<hooks, HOOK_CACHE, torch_hooks, global_post_hooks, OPTIM_ITER,
               next_tracer, PB_COLL_TRACE, coll_traced, calls, seen, stepped>>

loaderVars == <<sys_modules, attrs, loaded>>

pyVars == <<pyvalue, pytable>>

actVars == <<environ, argv0, host, probe_value, current_script, script_init,
              apc, todo, attached, events, escaped>>

replVars == <<buffer, iopub, reply, last, npush>>

samplerVars == <<mode, rate, mod_names, mod_queue, curr_idx, curr_mod,
                  finalized, sampled_step, MODULE_CALL_OFFSET, CURRENT_MODULE,
                  CURRENT_STAGE, curr_step, hpc, sampled_now, visits,
                  full_rate, last_set>>

probeVars == <<torch_env, probe, configured>>

guardVars == <<maxtry_left, hcall, host_raised>>

pollerVars == <<spans, next_span, span_queue, poller_span, EVENT_COUNT,
                 SKIP_COUNT, add_maxtry, profiled, last_add, open_calls,
                 accepted, last_end>>

importHookVars == <<meta_path, original_meta_path, register, triggered,
                     modules_loaded, import_log, last_reg>>

hookVars == <<last_hook, row_steps, tstep>>

memVars == <<memtracer, tracer_globals, mem_last, mem_rows, mem_tstep>>

timerVars == <<timer_events, pending, trace, execs, made, psteps, last_timed>>

instVars == <<tracers, last_inst>>

rdmaVars == <<rdma_env, rdma_enabled, stop_event, rdma_thread, rdma_created,
               thread_pc, rdma_calls>>

\* The parts after Part III; the first three parts leave them alone.
laterVars == <<loaderVars, pyVars, actVars, replVars, samplerVars, probeVars,
                guardVars, pollerVars, importHookVars, hookVars, memVars,
                timerVars, instVars, rdmaVars>>

vars == <<storeVars, regVars, torchVars, laterVars>>

\* What each later part leaves alone.
earlyVars == <<storeVars, regVars, torchVars>>

siblingsOfLoader == <<pyVars, actVars, replVars, samplerVars, probeVars,
                       guardVars, pollerVars, importHookVars, hookVars,
                       memVars, timerVars, instVars, rdmaVars>>

othersOfLoader == <<earlyVars, siblingsOfLoader>>

siblingsOfPy == <<loaderVars, actVars, replVars, samplerVars, probeVars,
                   guardVars, pollerVars, importHookVars, hookVars, memVars,
                   timerVars, instVars, rdmaVars>>

othersOfPy == <<earlyVars, siblingsOfPy>>

siblingsOfAct == <<loaderVars, pyVars, replVars, samplerVars, probeVars,
                    guardVars, pollerVars, importHookVars, hookVars, memVars,
                    timerVars, instVars, rdmaVars>>

othersOfAct == <<earlyVars, siblingsOfAct>>

siblingsOfRepl == <<loaderVars, pyVars, actVars, samplerVars, probeVars,
                     guardVars, pollerVars, importHookVars, hookVars, memVars,
                     timerVars, instVars, rdmaVars>>

othersOfRepl == <<earlyVars, siblingsOfRepl>>

siblingsOfSampler == <<loaderVars, pyVars, actVars, replVars, probeVars,
                        guardVars, pollerVars, importHookVars, hookVars,
                        memVars, timerVars, instVars, rdmaVars>>

othersOfSampler == <<earlyVars, siblingsOfSampler>>

siblingsOfProbe == <<loaderVars, pyVars, actVars, replVars, samplerVars,
                      guardVars, pollerVars, importHookVars, hookVars,
                      memVars, timerVars, instVars, rdmaVars>>

othersOfProbe == <<earlyVars, siblingsOfProbe>>

siblingsOfGuard == <<loaderVars, pyVars, actVars, replVars, samplerVars,
                      probeVars, pollerVars, importHookVars, hookVars,
                      memVars, timerVars, instVars, rdmaVars>>

othersOfGuard == <<earlyVars, siblingsOfGuard>>

siblingsOfPoller == <<loaderVars, pyVars, actVars, replVars, samplerVars,
                       probeVars, guardVars, importHookVars, hookVars,
                       memVars, timerVars, instVars, rdmaVars>>

othersOfPoller == <<earlyVars, siblingsOfPoller>>

siblingsOfImportHook == <<loaderVars, pyVars, actVars, replVars, samplerVars,
                           probeVars, guardVars, pollerVars, hookVars,
                           memVars, timerVars, instVars, rdmaVars>>

othersOfImportHook == <<earlyVars, siblingsOfImportHook>>

siblingsOfHook == <<loaderVars, pyVars, actVars, replVars, probeVars,
                     guardVars, pollerVars, importHookVars, memVars,
                     timerVars, instVars, rdmaVars>>

othersOfHook == <<earlyVars, siblingsOfHook>>

siblingsOfMem == <<loaderVars, pyVars, actVars, replVars, samplerVars,
                    probeVars, guardVars, pollerVars, importHookVars,
                    hookVars, timerVars, instVars, rdmaVars>>

othersOfMem == <<earlyVars, siblingsOfMem>>

siblingsOfTimer == <<loaderVars, pyVars, actVars, replVars, probeVars,
                      guardVars, pollerVars, importHookVars, hookVars,
                      memVars, instVars, rdmaVars>>

othersOfTimer == <<earlyVars, siblingsOfTimer>>

siblingsOfInst == <<loaderVars, pyVars, actVars, replVars, probeVars,
                     guardVars, pollerVars, importHookVars, hookVars, memVars,
                     timerVars, rdmaVars>>

othersOfInst == <<earlyVars, siblingsOfInst>>

siblingsOfRdma == <<loaderVars, pyVars, actVars, replVars, samplerVars,
                     probeVars, guardVars, pollerVars, importHookVars,
                     hookVars, memVars, timerVars, instVars>>

othersOfRdma == <<earlyVars, siblingsOfRdma>>

(***************************************************************************)
(* Part I.  External table store                                           *)
(***************************************************************************)

\* Bounds of the model.
MaxChunkSize == 2
MaxThreshold == 2
MaxRows      == 5
MaxBatch     == 2
MaxTake      == 2
MaxChunks    == 7

Schema  == <<"a", "b">>
NCols   == Len(Schema)
Writers == {"w1", "w2"}
Readers == {"r1"}
NoWriter == "none"
ChunkIds == 1..MaxChunks

Min(a, b) == IF a < b THEN a ELSE b

Last(s) == s[Len(s)]

\* Last k elements of s.
Suffix(s, k) == SubSeq(s, Len(s) - k + 1, Len(s))

\* A row handed to append: `arity` scalars, tagged with the sequence number
\* the row gets if it is committed, and the column it is meant for.
RowOf(id, arity) == [j \in 1..arity |-> 10 * id + j]

FreeChunk == [data |-> <<>>, sealed |-> FALSE, free |-> TRUE]

NoSnap == [live |-> FALSE]

\* Row arity must match the schema arity.
ValidRowAccept(row) == TRUE
ValidRow(row) == Len(row) = NCols

ValidBatch(rows) == \A i \in 1..Len(rows) : ValidRow(rows[i])

\* Number of live rows of one column: the sum of its chunks' lengths.
RECURSIVE QueueRows(_, _)
QueueRows(h, q) ==
    IF q = <<>> THEN 0 ELSE Len(h[q[1]].data) + QueueRows(h, Tail(q))

ColRows(j) == QueueRows(heap, columns[j])

active_rows == ColRows(1)

\* All scalars of one column, oldest first.
RECURSIVE QueueData(_, _)
QueueData(h, q) ==
    IF q = <<>> THEN <<>> ELSE h[q[1]].data \o QueueData(h, Tail(q))

FreeIds(h) == {c \in ChunkIds : h[c].free}

AllocId(h) == CHOOSE c \in FreeIds(h) : \A d \in FreeIds(h) : c <= d

\* Push one scalar on a column: into the writable tail, or, when the tail
\* is full (or there is none), seal it and open a new tail chunk.
PushOne(st, v) ==
    LET h == st.h
        q == st.q
    IN  IF q # <<>> /\ Len(h[Last(q)].data) < chunk_size
        THEN [h |-> [h EXCEPT ![Last(q)].data = Append(@, v)], q |-> q]
        ELSE LET h1 == IF q = <<>> THEN h
                       ELSE [h EXCEPT ![Last(q)].sealed = TRUE]
                 c  == AllocId(h1)
             IN  [h |-> [h1 EXCEPT ![c] = [data |-> <<v>>, sealed |-> FALSE,
                                           free |-> FALSE]],
                  q |-> Append(q, c)]

RECURSIVE PushAll(_, _)
PushAll(st, vals) ==
    IF vals = <<>> THEN st ELSE PushAll(PushOne(st, vals[1]), Tail(vals))

\* The scalars a batch holds for column j (a row too short has none).
RECURSIVE ColumnValues(_, _)
ColumnValues(rows, j) ==
    IF rows = <<>> THEN <<>>
    ELSE (IF j <= Len(rows[1]) THEN <<rows[1][j]>> ELSE <<>>)
         \o ColumnValues(Tail(rows), j)

\* A chunk is referenced by a snapshot that is still held.
Referenced(c) ==
    \E r \in Readers : snaps[r].live /\ \E j \in 1..NCols :
        \E i \in 1..Len(snaps[r].refs[j]) : snaps[r].refs[j][i] = c

\* Releasing a chunk the table no longer owns: it is recycled unless a
\* snapshot still shares ownership.
ReleaseIgnoringSnapshots(h, c) == [h EXCEPT ![c] = FreeChunk]
Release(h, c) == IF Referenced(c) THEN h ELSE [h EXCEPT ![c] = FreeChunk]

\* Drop sealed chunks from the head of a column while the threshold is
\* exceeded.
RECURSIVE DropHead(_)
DropHead(st) ==
    IF /\ st.q # <<>>
       /\ QueueRows(st.h, st.q) > discard_threshold
       /\ st.h[st.q[1]].sealed
    THEN DropHead([h |-> Release(st.h, st.q[1]), q |-> Tail(st.q)])
    ELSE st

\* Eviction of one column after a successful append: if the threshold is
\* exceeded, seal the tail chunk if full, then drop sealed head chunks.
EvictColKeepAll(st) == st
EvictColLazy(st) ==
    IF st.q = <<>> \/ QueueRows(st.h, st.q) <= discard_threshold + chunk_size
    THEN st
    ELSE DropHead([h |-> [st.h EXCEPT ![Last(st.q)].sealed =
                              Len(st.h[Last(st.q)].data) >= chunk_size],
                   q |-> st.q])
EvictCol(st) ==
    IF st.q = <<>> \/ QueueRows(st.h, st.q) <= discard_threshold THEN st
    ELSE LET t  == Last(st.q)
             h1 == IF Len(st.h[t].data) >= chunk_size
                   THEN [st.h EXCEPT ![t].sealed = TRUE] ELSE st.h
         IN  DropHead([h |-> h1, q |-> st.q])

RECURSIVE EvictFrom(_, _, _)
EvictFrom(h, cols, j) ==
    IF j > NCols THEN [h |-> h, cols |-> cols]
    ELSE LET st == EvictCol([h |-> h, q |-> cols[j]])
         IN  EvictFrom(st.h, [cols EXCEPT ![j] = st.q], j + 1)

InitStore ==
    /\ chunk_size \in 1..MaxChunkSize
    /\ discard_threshold \in 1..MaxThreshold
    /\ rows_appended = 0
    /\ heap = [c \in ChunkIds |-> FreeChunk]
    /\ columns = [j \in 1..NCols |-> <<>>]
    /\ wlock = NoWriter
    /\ wpc = [w \in Writers |-> "idle"]
    /\ wbatch = [w \in Writers |-> <<>>]
    /\ wcol = [w \in Writers |-> 0]
    /\ wret = [w \in Writers |-> "none"]
    /\ snaps = [r \in Readers |-> NoSnap]
    /\ taken = [r \in Readers |-> [n |-> 0, act |-> 0, at |-> 0,
                                   rows |-> <<>>, done |-> FALSE]]
    /\ log = <<>>

\* append / append_many, first step: take the write lock and validate the
\* whole batch; a batch with a bad row is rejected before anything is written.
AppendBegin(w, n, arity) ==
    /\ wpc[w] = "idle"
    /\ wlock = NoWriter
    /\ rows_appended + n <= MaxRows
    /\ Cardinality(FreeIds(heap)) >= NCols * n
    /\ LET rows == [i \in 1..n |->
                      RowOf(rows_appended + i - 1, IF i = n THEN arity ELSE NCols)]
       IN  IF ValidBatch(rows)
           THEN /\ wlock' = w
                /\ wpc' = [wpc EXCEPT ![w] = "commit"]
                /\ wbatch' = [wbatch EXCEPT ![w] = rows]
                /\ wcol' = [wcol EXCEPT ![w] = 1]
                /\ wret' = [wret EXCEPT ![w] = "none"]
           ELSE /\ wret' = [wret EXCEPT ![w] = "SchemaMismatch"]
                /\ UNCHANGED <<wlock, wpc, wbatch, wcol>>
    /\ UNCHANGED <<chunk_size, discard_threshold, rows_appended, heap, columns,
                   snaps, taken, log>>
    /\ UNCHANGED <<regVars, torchVars, laterVars>>

\* Commit, one column at a time, under the write lock.
AppendColumn(w) ==
    /\ wpc[w] = "commit"
    /\ wlock = w
    /\ wcol[w] <= NCols
    /\ LET j  == wcol[w]
           st == PushAll([h |-> heap, q |-> columns[j]],
                         ColumnValues(wbatch[w], j))
       IN  /\ heap' = st.h
           /\ columns' = [columns EXCEPT ![j] = st.q]
    /\ wcol' = [wcol EXCEPT ![w] = @ + 1]
    /\ UNCHANGED <<chunk_size, discard_threshold, rows_appended, wlock, wpc,
                   wbatch, wret, snaps, taken, log>>
    /\ UNCHANGED <<regVars, torchVars, laterVars>>

\* Last step of an append: count the rows, evict, release the write lock.
AppendFinish(w) ==
    /\ wpc[w] = "commit"
    /\ wlock = w
    /\ wcol[w] > NCols
    /\ rows_appended' = rows_appended + Len(wbatch[w])
    /\ log' = log \o wbatch[w]
    /\ LET ev == EvictFrom(heap, columns, 1)
       IN  /\ heap' = ev.h
           /\ columns' = ev.cols
    /\ wlock' = NoWriter
    /\ wpc' = [wpc EXCEPT ![w] = "idle"]
    /\ wbatch' = [wbatch EXCEPT ![w] = <<>>]
    /\ wcol' = [wcol EXCEPT ![w] = 0]
    /\ wret' = [wret EXCEPT ![w] = "ok"]
    /\ UNCHANGED <<chunk_size, discard_threshold, snaps, taken>>
    /\ UNCHANGED <<regVars, torchVars, laterVars>>

\* The chunks of queue q that hold its last m scalars, and how many scalars
\* of the first of them lie before the window.
RECURSIVE WindowOf(_, _, _)
WindowOf(h, q, m) ==
    IF q = <<>> THEN [refs |-> <<>>, skip |-> 0]
    ELSE LET rest == QueueRows(h, Tail(q))
         IN  IF rest >= m /\ m > 0 THEN WindowOf(h, Tail(q), m)
             ELSE IF m = 0 THEN [refs |-> <<>>, skip |-> 0]
             ELSE [refs |-> q, skip |-> QueueRows(h, q) - m]

\* Wrong window: the oldest rows instead of the most recent.
WindowOldest(h, q, m) == [refs |-> q, skip |-> 0]
Window(h, q, m) == WindowOf(h, q, m)

\* take(n), first step: under the read lock, copy chunk references (not
\* data) of the last min(n, active_rows) rows.
TakeBegin(r, n) ==
    /\ ~snaps[r].live
    /\ wlock = NoWriter
    /\ LET m == Min(n, active_rows)
       IN  snaps' = [snaps EXCEPT ![r] =
                [live  |-> TRUE,
                 n     |-> n,
                 count |-> m,
                 refs  |-> [j \in 1..NCols |-> Window(heap, columns[j], m).refs],
                 skip  |-> [j \in 1..NCols |-> Window(heap, columns[j], m).skip],
                 act   |-> active_rows,
                 at    |-> Len(log)]]
    /\ UNCHANGED <<chunk_size, discard_threshold, rows_appended, heap, columns,
                   wlock, wpc, wbatch, wcol, wret, taken, log>>
    /\ UNCHANGED <<regVars, torchVars, laterVars>>

Recycled == -1

\* The row-major listing a snapshot yields when it is marshalled now.
Yield(s) ==
    [i \in 1..s.count |->
        [j \in 1..NCols |->
            LET d == QueueData(heap, s.refs[j])
            IN  IF s.skip[j] + i <= Len(d) THEN d[s.skip[j] + i] ELSE Recycled]]

RECURSIVE ReleaseAll(_, _)
ReleaseAll(h, cs) ==
    IF cs = {} THEN h
    ELSE LET c == CHOOSE x \in cs : TRUE
         IN  ReleaseAll([h EXCEPT ![c] = FreeChunk], cs \ {c})

Owned(c) == \E j \in 1..NCols : \E i \in 1..Len(columns[j]) : columns[j][i] = c

SnapRefs(s) ==
    {s.refs[j][i] : <<j, i>> \in {p \in (1..NCols) \X ChunkIds :
                                      p[2] <= Len(s.refs[p[1]])}}

\* take(n), second step, outside the lock: marshal the rows and drop the
\* snapshot; chunks nobody owns any more are released.
TakeFinish(r) ==
    /\ snaps[r].live
    /\ taken' = [taken EXCEPT ![r] =
            [n |-> snaps[r].n, act |-> snaps[r].act, at |-> snaps[r].at,
             rows |-> Yield(snaps[r]), done |-> TRUE]]
    /\ snaps' = [snaps EXCEPT ![r] = NoSnap]
    /\ LET others == UNION {SnapRefs(snaps[x]) :
                            x \in {y \in Readers \ {r} : snaps[y].live}}
           orphan == {c \in SnapRefs(snaps[r]) : ~Owned(c) /\ c \notin others}
       IN  heap' = ReleaseAll(heap, orphan)
    /\ UNCHANGED <<chunk_size, discard_threshold, rows_appended, columns,
                   wlock, wpc, wbatch, wcol, wret, log>>
    /\ UNCHANGED <<regVars, torchVars, laterVars>>

NextStore ==
    \/ \E w \in Writers, n \in 1..MaxBatch, a \in (NCols - 1)..(NCols + 1) :
          AppendBegin(w, n, a)
    \/ \E w \in Writers : AppendColumn(w)
    \/ \E w \in Writers : AppendFinish(w)
    \/ \E r \in Readers, n \in 0..MaxTake : TakeBegin(r, n)
    \/ \E r \in Readers : TakeFinish(r)

Quiescent == wlock = NoWriter

(***************************************************************************)
(* Properties of the store                                                 *)
(***************************************************************************)

\* The rows the table holds, oldest first, row-major.
TableRows ==
    [i \in 1..active_rows |->
        [j \in 1..NCols |-> QueueData(heap, columns[j])[i]]]

\* The committed rows up to position `at` of the history.
Prefix(at) == SubSeq(log, 1, at)

\* C1: whenever no append is in progress (the write lock is free), all
\* columns of the table hold the same number of active rows, whatever
\* mixture of accepted and rejected append / append_many calls ran before.
C1_ColumnsEqualAtQuiescence ==
    Quiescent => \A i, j \in 1..NCols : ColRows(i) = ColRows(j)

\* C1 witness: both an accepted and a rejected append have returned, rows
\* were committed and some were evicted, and the table is quiescent.
C1_Witness ==
    /\ Quiescent
    /\ wret["w1"] = "ok"
    /\ wret["w2"] = "SchemaMismatch"
    /\ rows_appended >= 3
    /\ 0 < active_rows /\ active_rows < rows_appended

\* C2: a finished take(n) returned exactly min(n, active_rows) rows, and
\* they are the most recently committed rows in commit order (the empty
\* listing when the table held no row).
C2_TakeMostRecent ==
    \A r \in Readers :
        taken[r].done =>
            /\ Len(taken[r].rows) = Min(taken[r].n, taken[r].act)
            /\ taken[r].rows =
                 Suffix(Prefix(taken[r].at), Min(taken[r].n, taken[r].act))

\* C2 witness: a take(1) returned after four appends of which two rows had
\* been evicted, so the window starts inside a chunk.
C2_Witness ==
    \E r \in Readers :
        /\ taken[r].done
        /\ taken[r].n = 1 /\ taken[r].act = 2 /\ taken[r].at = 4
        /\ Len(taken[r].rows) = 1

\* C3: after an append has returned, active_rows <= discard_threshold +
\* chunk_size.
C3_ActiveRowsBounded ==
    Quiescent => active_rows <= discard_threshold + chunk_size

\* C3 witness: more rows were appended than the bound admits, so eviction
\* had to run.
C3_Witness ==
    /\ Quiescent
    /\ rows_appended > discard_threshold + chunk_size
    /\ active_rows > 0

\* C4: with discard_threshold = chunk_size, once a whole number m >= 1 of
\* chunks has been appended the table holds exactly the last chunk_size rows.
C4_LastChunkKept ==
    (/\ Quiescent
     /\ discard_threshold = chunk_size
     /\ rows_appended > 0
     /\ rows_appended % chunk_size = 0)
    => TableRows = Suffix(log, chunk_size)

\* C4 witness: chunk_size = discard_threshold = 2 and two whole chunks were
\* appended.
C4_Witness ==
    /\ Quiescent
    /\ chunk_size = 2 /\ discard_threshold = 2
    /\ rows_appended = 4
    /\ active_rows = 2

\* C5: while a snapshot is held, none of the chunks it references has been
\* released, and the rows it yields are the rows it captured: the
\* contiguous run of the append history that ended when it was taken.
C5_SnapshotStable ==
    \A r \in Readers :
        snaps[r].live =>
            /\ \A c \in SnapRefs(snaps[r]) : ~heap[c].free
            /\ Yield(snaps[r]) = Suffix(Prefix(snaps[r].at), snaps[r].count)

\* C5 witness: a snapshot of two rows is held, rows were appended after it
\* was taken, and a chunk it references has been evicted from the table.
C5_Witness ==
    \E r \in Readers :
        /\ snaps[r].live
        /\ snaps[r].count = 2
        /\ Len(log) > snaps[r].at
        /\ \E c \in SnapRefs(snaps[r]) : ~Owned(c)

(***************************************************************************)
(* Part II.  Table registry, dataclass tables, extensions                  *)
(***************************************************************************)

\* Bounds of the model.
MaxTables == 3
MaxSaves  == 2
MaxStmts  == 5

UpperChars == <<"A", "B", "C", "D", "E", "F", "G", "H", "I", "J", "K", "L", "M",
                "N", "O", "P", "Q", "R", "S", "T", "U", "V", "W", "X", "Y", "Z">>
LowerChars == <<"a", "b", "c", "d", "e", "f", "g", "h", "i", "j", "k", "l", "m",
                "n", "o", "p", "q", "r", "s", "t", "u", "v", "w", "x", "y", "z">>
DigitChars == <<"0", "1", "2", "3", "4", "5", "6", "7", "8", "9">>

IsUpper(c) == \E i \in 1..Len(UpperChars) : UpperChars[i] = c
IsLower(c) == \E i \in 1..Len(LowerChars) : LowerChars[i] = c
IsDigit(c) == \E i \in 1..Len(DigitChars) : DigitChars[i] = c

\* str.lower()
lower(s) ==
    [i \in 1..Len(s) |->
        IF IsUpper(s[i])
        THEN LowerChars[CHOOSE k \in 1..Len(UpperChars) : UpperChars[k] = s[i]]
        ELSE s[i]]

\* Length of the run of lower-case letters of s that starts at position i.
RECURSIVE LowerRun(_, _)
LowerRun(s, i) ==
    IF i <= Len(s) /\ IsLower(s[i]) THEN 1 + LowerRun(s, i + 1) ELSE 0

\* re.sub("(.)([A-Z][a-z]+)", r"\1_\2", s), scanning from position i.
RECURSIVE SubWord(_, _)
SubWord(s, i) ==
    IF i > Len(s) THEN <<>>
    ELSE IF i + 2 <= Len(s) /\ IsUpper(s[i + 1]) /\ IsLower(s[i + 2])
         THEN LET k == LowerRun(s, i + 2)
              IN  <<s[i], "_">> \o SubSeq(s, i + 1, i + 1 + k)
                                \o SubWord(s, i + 2 + k)
         ELSE <<s[i]>> \o SubWord(s, i + 1)

\* re.sub("([a-z0-9])([A-Z])", r"\1_\2", s), scanning from position i.
RECURSIVE SubHump(_, _)
SubHump(s, i) ==
    IF i > Len(s) THEN <<>>
    ELSE IF i + 1 <= Len(s) /\ (IsLower(s[i]) \/ IsDigit(s[i])) /\ IsUpper(s[i + 1])
         THEN <<s[i], "_", s[i + 1]>> \o SubHump(s, i + 2)
         ELSE <<s[i]>> \o SubHump(s, i + 1)

camel_to_snake(name) == lower(SubHump(SubWord(name, 1), 1))

\* The dataclasses user code decorates with @table.
Classes == {"ExampleExt", "Twin", "Other", "Point"}

\* cls.__name__
ClassName(c) ==
    CASE c = "ExampleExt" -> <<"E", "x", "a", "m", "p", "l", "e", "E", "x", "t">>
      [] c = "Twin"       -> <<"T", "w", "i", "n">>
      [] c = "Other"      -> <<"O", "t", "h", "e", "r">>
      [] c = "Point"      -> <<"P", "o", "i", "n", "t">>

NoName == <<>>

\* The argument of @table(...): a table name, or none (@table alone).
DecoratorArg(c) ==
    CASE c = "Twin"  -> <<"E", "x", "a", "m", "p", "l", "e", "_", "E", "x", "t">>
      [] c = "Other" -> <<"e", "x", "a", "m", "p", "l", "e", "_", "e", "x", "t">>
      [] OTHER       -> NoName

\* [f.name for f in dataclasses.fields(cls)]
Fields(c) ==
    CASE c = "ExampleExt" -> <<"id", "name">>
      [] c = "Twin"       -> <<"id", "name">>
      [] c = "Other"      -> <<"id", "value">>
      [] c = "Point"      -> <<"x", "y">>

\* table_name = name or camel_to_snake(cls.__name__)
table_name(c) ==
    IF DecoratorArg(c) # NoName THEN lower(DecoratorArg(c))
    ELSE camel_to_snake(ClassName(c))

\* The table name of every class, computed once.
TableNameOf == [c \in Classes |-> table_name(c)]

TableNames == {TableNameOf[c] : c \in Classes}
FieldLists == {Fields(c) : c \in Classes}

example_ext == <<"e", "x", "a", "m", "p", "l", "e", "_", "e", "x", "t">>

NoTable  == [exists |-> FALSE]
NoHandle == [name |-> NoName, tid |-> 0]

\* ---- the registry (spec 4.B)

\* get(name): a handle on the table, or an error when there is none.
RegGet(reg, name) ==
    IF reg[name].exists
    THEN [err |-> "none", handle |-> [name |-> name, tid |-> reg[name].tid]]
    ELSE [err |-> "NotFound", handle |-> NoHandle]

\* create that replaces a table already there.
RegCreateReplace(reg, tid, name, fields) ==
    [err |-> "none",
     reg |-> [reg EXCEPT ![name] = [exists |-> TRUE, fields |-> fields,
                                    rows |-> <<>>, tid |-> tid]],
     tid |-> tid + 1,
     handle |-> [name |-> name, tid |-> tid]]

\* create(name, schema): a new table; the existing handle when the name is
\* taken with an identical schema; an error when the schema differs (named
\* AlreadyExists in spec 4.B and SchemaMismatch in spec 4.J and 7).
RegCreate(reg, tid, name, fields) ==
    IF ~reg[name].exists
    THEN [err |-> "none",
          reg |-> [reg EXCEPT ![name] = [exists |-> TRUE, fields |-> fields,
                                         rows |-> <<>>, tid |-> tid]],
          tid |-> tid + 1,
          handle |-> [name |-> name, tid |-> tid]]
    ELSE IF reg[name].fields = fields
         THEN [err |-> "none", reg |-> reg, tid |-> tid,
               handle |-> [name |-> name, tid |-> reg[name].tid]]
         ELSE [err |-> "SchemaMismatch", reg |-> reg, tid |-> tid,
               handle |-> NoHandle]

\* drop(name): deletes the table; dropping a name not there changes nothing.
RegDrop(reg, name) == [reg EXCEPT ![name] = NoTable]

\* A handle is a weak reference, resolved on use.
Resolves(reg, h) ==
    h # NoHandle /\ reg[h.name].exists /\ reg[h.name].tid = h.tid

\* SHOW TABLES
ShowTables == {n \in TableNames : registry[n].exists}

\* ---- the dataclass table decorator (python/probing/core/table.py)

\* The state the decorator's functions read and write.
World == [reg |-> registry, tid |-> next_tid, cache |-> cache,
          defined |-> defined, err |-> "none"]

\* table.names() != fields
NamesDifferByLength(names, fields) == Len(names) # Len(fields)
NamesDiffer(names, fields) == names # fields

\* init_table: the try block raises when get fails or the fields differ;
\* the except clause then constructs the table, and what the constructor
\* raises propagates.
init_table(c, reg, tid) ==
    LET got    == RegGet(reg, TableNameOf[c])
        raised == \/ got.err # "none"
                  \/ NamesDiffer(reg[TableNameOf[c]].fields, Fields(c))
    IN  IF ~raised
        THEN [err |-> "none", reg |-> reg, tid |-> tid, handle |-> got.handle]
        ELSE RegCreate(reg, tid, TableNameOf[c], Fields(c))

\* init_table() and `cache[cls] = table`.
run_init_table(w, c) ==
    LET r == init_table(c, w.reg, w.tid)
    IN  IF r.err = "none"
        THEN [w EXCEPT !.reg = r.reg, !.tid = r.tid,
                       !.cache = [w.cache EXCEPT ![c] = r.handle]]
        ELSE [w EXCEPT !.err = r.err]

\* table.drop(table_name)
drop_table_skipped(c, reg) == reg
drop_table(c, reg) == RegDrop(reg, TableNameOf[c])

\* drop: `table = cache[cls]` raises KeyError when the class has no entry.
run_drop(w, c) ==
    IF w.cache[c] = NoHandle THEN [w EXCEPT !.err = "KeyError"]
    ELSE [w EXCEPT !.cache = [w.cache EXCEPT ![c] = NoHandle],
                   !.reg = drop_table(c, w.reg)]

\* astuple(instance): one scalar per field.
RowFor(c, k) == [j \in 1..Len(Fields(c)) |-> k]

\* append / save: `table = cache[cls]`, then table.append(astuple(self)).
run_append(w, c) ==
    LET h == w.cache[c]
    IN  IF h = NoHandle THEN [w EXCEPT !.err = "KeyError"]
        ELSE IF ~Resolves(w.reg, h) THEN [w EXCEPT !.err = "NotFound"]
        ELSE IF Len(w.reg[h.name].fields) # Len(Fields(c))
             THEN [w EXCEPT !.err = "SchemaMismatch"]
        ELSE [w EXCEPT !.reg = [w.reg EXCEPT ![h.name].rows =
                   Append(@, RowFor(c, Len(@)))]]

InitReg ==
    /\ registry = [n \in TableNames |-> NoTable]
    /\ next_tid = 1
    /\ cache = [c \in Classes |-> NoHandle]
    /\ defined = {}
    /\ active = {}
    /\ ret = [op |-> "none", name |-> NoName, fields |-> <<>>, err |-> "none",
              handle |-> NoHandle, prior |-> NoTable]
    /\ stmt = [kind |-> "none", status |-> "ok", n |-> 0]

Commit(w) ==
    /\ registry' = w.reg
    /\ next_tid' = w.tid
    /\ cache' = w.cache
    /\ defined' = w.defined

Returned(op, c, w) ==
    ret' = [op |-> op, name |-> TableNameOf[c], fields |-> Fields(c),
            err |-> w.err, handle |-> w.cache[c],
            prior |-> registry[TableNameOf[c]]]

\* A class definition decorated with @table: the decorator runs
\* init_table(); if that raises, the class is not defined.
Decorate(c) ==
    /\ c \notin defined
    /\ next_tid <= MaxTables
    /\ LET w == run_init_table(World, c)
       IN  /\ Commit(IF w.err = "none"
                     THEN [w EXCEPT !.defined = @ \cup {c}] ELSE w)
           /\ Returned("decorate", c, w)
    /\ UNCHANGED <<active, stmt>>
    /\ UNCHANGED <<storeVars, torchVars, laterVars>>

\* cls.init_table() called again on a defined class.
CallInitTable(c) ==
    /\ c \in defined
    /\ next_tid <= MaxTables
    /\ LET w == run_init_table(World, c)
       IN  Commit(w) /\ Returned("init_table", c, w)
    /\ UNCHANGED <<active, stmt>>
    /\ UNCHANGED <<storeVars, torchVars, laterVars>>

\* cls(...).save()
Save(c) ==
    /\ c \in defined
    /\ registry[TableNameOf[c]].exists => Len(registry[TableNameOf[c]].rows) < MaxSaves
    /\ LET w == run_append(World, c)
       IN  Commit(w) /\ Returned("save", c, w)
    /\ UNCHANGED <<active, stmt>>
    /\ UNCHANGED <<storeVars, torchVars, laterVars>>

\* cls.drop()
DropClass(c) ==
    /\ c \in defined
    /\ LET w == run_drop(World, c)
       IN  Commit(w) /\ Returned("drop", c, w)
    /\ UNCHANGED <<active, stmt>>
    /\ UNCHANGED <<storeVars, torchVars, laterVars>>

\* probing.ExternalTable(name, fields) called directly.
Create(name, fields) ==
    /\ next_tid <= MaxTables
    /\ LET r == RegCreate(registry, next_tid, name, fields)
       IN  /\ registry' = r.reg
           /\ next_tid' = r.tid
           /\ ret' = [op |-> "create", name |-> name, fields |-> fields,
                      err |-> r.err, handle |-> r.handle,
                      prior |-> registry[name]]
    /\ UNCHANGED <<cache, defined, active, stmt>>
    /\ UNCHANGED <<storeVars, torchVars, laterVars>>

NextTable ==
    \/ \E c \in Classes : Decorate(c)
    \/ \E c \in Classes : CallInitTable(c)
    \/ \E c \in Classes : Save(c)
    \/ \E c \in Classes : DropClass(c)
    \/ \E n \in TableNames, f \in FieldLists : Create(n, f)

\* ---- extensions (python/probing/ext/example.py, spec 4.J)

ExampleModule == "probing.ext.example"

\* Importing probing.ext.example runs its body once: the @table decoration
\* of ExampleExt.
import_example(w) ==
    IF "ExampleExt" \in w.defined THEN w
    ELSE LET w1 == run_init_table(w, "ExampleExt")
         IN  IF w1.err = "none"
             THEN [w1 EXCEPT !.defined = @ \cup {"ExampleExt"}] ELSE w1

\* init(): ExampleExt.init_table()
example_init(w) == run_init_table(w, "ExampleExt")

\* deinit(): ExampleExt.drop()
example_deinit(w) == run_drop(w, "ExampleExt")

\* A SET statement whose extension call raised returns an error and the
\* registry is rolled back; otherwise its effects stand.
Statement(kind, w, act) ==
    /\ stmt' = [kind |-> kind,
                status |-> IF w.err = "none" THEN "ok" ELSE "error",
                n |-> stmt.n + 1]
    /\ cache' = w.cache
    /\ defined' = w.defined
    /\ IF w.err = "none"
       THEN registry' = w.reg /\ next_tid' = w.tid /\ active' = act
       ELSE UNCHANGED <<registry, next_tid, active>>

\* SET probing.python.enabled = 'probing.ext.example'
SetEnabled ==
    /\ stmt.n < MaxStmts
    /\ LET w1 == import_example(World)
           w2 == IF w1.err = "none" THEN example_init(w1) ELSE w1
       IN  Statement("enabled", w2, active \cup {ExampleModule})
    /\ UNCHANGED ret
    /\ UNCHANGED <<storeVars, torchVars, laterVars>>

\* SET probing.python.disabled = 'probing.ext.example'
SetDisabled ==
    /\ stmt.n < MaxStmts
    /\ LET w1 == import_example(World)
           w2 == IF w1.err = "none" THEN example_deinit(w1) ELSE w1
       IN  Statement("disabled", w2, active \ {ExampleModule})
    /\ UNCHANGED ret
    /\ UNCHANGED <<storeVars, torchVars, laterVars>>

\* ExampleExt(...).save() by code using the extension.
ExtSave ==
    /\ "ExampleExt" \in defined
    /\ registry[example_ext].exists => Len(registry[example_ext].rows) < MaxSaves
    /\ LET w == run_append(World, "ExampleExt")
       IN  Commit(w)
    /\ UNCHANGED <<active, ret, stmt>>
    /\ UNCHANGED <<storeVars, torchVars, laterVars>>

\* Code outside the extension that keeps a table of its own.
Bystanders == {"Point"}

NextExt ==
    \/ SetEnabled
    \/ SetDisabled
    \/ ExtSave
    \/ \E c \in Bystanders : Decorate(c)
    \/ \E c \in Bystanders : Save(c)
    \/ \E c \in Bystanders : DropClass(c)

(***************************************************************************)
(* Properties of the registry, the dataclass tables and the extensions     *)
(***************************************************************************)

\* C6: creating a table under a name already taken with an identical schema
\* (by the registry's create, by a @table class definition or by
\* init_table) raises nothing, returns the handle of the existing table and
\* leaves that table, with its rows, as it was.
C6_CreateIdempotent ==
    (/\ ret.op \in {"create", "decorate", "init_table"}
     /\ ret.prior.exists
     /\ ret.prior.fields = ret.fields)
    => /\ ret.err = "none"
       /\ ret.handle = [name |-> ret.name, tid |-> ret.prior.tid]
       /\ registry[ret.name] = ret.prior

\* C6 witness: a second class was decorated onto a table that already held
\* a row, with the same fields.
C6_Witness ==
    /\ ret.op = "decorate"
    /\ ret.prior.exists
    /\ ret.prior.fields = ret.fields
    /\ Len(ret.prior.rows) >= 1
    /\ ret.err = "none"

C8_ListedIffEnabledLast ==
    stmt.n > 0 => (example_ext \in ShowTables <=> stmt.kind = "enabled")

\* C8 witness: the extension was enabled again after a disable, so its table
\* was created a second time.
C8_Witness ==
    /\ stmt.n >= 3
    /\ stmt.kind = "enabled"
    /\ stmt.status = "ok"
    /\ "Point" \notin defined
    /\ example_ext \in ShowTables
    /\ registry[example_ext].tid >= 2

\* C9: a statement that repeats the statement before it (enable after
\* enable, disable after disable) completes without an error and leaves the
\* set of tables and the set of active extensions as they were.
C9_RepeatIsIdempotent ==
    [][(stmt'.n = stmt.n + 1 /\ stmt'.kind = stmt.kind)
        => (/\ stmt'.status = "ok"
            /\ ShowTables' = ShowTables
            /\ active' = active)]_vars

(***************************************************************************)
(* Part III.  Torch extension: init, deinit and hook installation          *)
(***************************************************************************)

\* Bound of the model: the number of init / deinit calls.
MaxCalls == 4

\* The host program's objects.
Modules    == {"model", "model.layer"}
Optimizers == {"opt1", "opt2"}

\* m.children()
Children(m) == IF m = "model" THEN {"model.layer"} ELSE {}

\* get_toplevel_module()
TopLevelModules == {"model"}

\* ext/torch.py is_true
is_true(value) ==
    value \in {"TRUE", "True", "true", "1", "YES", "Yes", "yes", "ON", "On", "on"}

EnvValues == {"False", "True", "1", "0"}

TorchState == [hooks |-> hooks, cache |-> HOOK_CACHE, reg |-> torch_hooks,
               iter |-> OPTIM_ITER, tracer |-> next_tracer]

Handle(obj, kind, tracer) == [obj |-> obj, kind |-> kind, tracer |-> tracer]

ModuleHandles(m, tracer) ==
    {Handle(m, "forward_pre", tracer), Handle(m, "forward", tracer)}

OptimizerHandles(o, tracer) ==
    {Handle(o, "step_pre", tracer), Handle(o, "step_post", tracer)}

\* install_hooks(m, tracer=tracer): the module and, recursively, its
\* children; a module already in HOOK_CACHE is left alone.
RECURSIVE install_module(_, _, _)
install_module(st, ms, tracer) ==
    IF ms = {} THEN st
    ELSE LET m    == CHOOSE x \in ms : TRUE
             rest == ms \ {m}
         IN  IF st.cache[m] # {}
             THEN install_module(st, rest, tracer)
             ELSE install_module(
                      [st EXCEPT !.reg = @ \cup ModuleHandles(m, tracer),
                                 !.cache = [@ EXCEPT ![m] = ModuleHandles(m, tracer)]],
                      rest \cup Children(m), tracer)

\* install_hooks(opt=optimizer, tracer=tracer)
install_optimizer(st, o, tracer) ==
    [st EXCEPT !.reg = @ \cup OptimizerHandles(o, tracer),
               !.cache = [@ EXCEPT ![o] = OptimizerHandles(o, tracer)]]

\* optimizer_step_post_hook(optimizer): the first step of an optimizer not
\* yet in `hooks` builds a tracer, installs its hooks, records the
\* optimizer and calls next_step().
optimizer_step_post_hook(st, o) ==
    IF o \in st.hooks THEN st
    ELSE LET t  == st.tracer
             s1 == install_module(st, TopLevelModules, t)
             s2 == install_optimizer(s1, o, t)
         IN  [s2 EXCEPT !.hooks = @ \cup {o}, !.iter = @ + 1, !.tracer = @ + 1]

\* The global post hooks run once per registration.
RECURSIVE run_global_post_hooks(_, _, _)
run_global_post_hooks(st, o, k) ==
    IF k = 0 THEN st
    ELSE run_global_post_hooks(optimizer_step_post_hook(st, o), o, k - 1)

\* uninstall_hooks(): remove every handle in HOOK_CACHE, then empty it.
uninstall_hooks(st) ==
    [st EXCEPT !.reg = @ \ UNION {st.cache[k] : k \in DOMAIN st.cache},
               !.cache = [k \in DOMAIN st.cache |-> {}]]

InitTorch ==
    /\ hooks = {}
    /\ HOOK_CACHE = [k \in Modules \cup Optimizers |-> {}]
    /\ torch_hooks = {}
    /\ global_post_hooks = 0
    /\ OPTIM_ITER = 1
    /\ next_tracer = 1
    /\ PB_COLL_TRACE = "False"
    /\ coll_traced = FALSE
    /\ calls = <<>>
    /\ seen = {}
    /\ stepped = {}

CommitTorch(st) ==
    /\ hooks' = st.hooks
    /\ HOOK_CACHE' = st.cache
    /\ torch_hooks' = st.reg
    /\ OPTIM_ITER' = st.iter
    /\ next_tracer' = st.tracer

\* The host sets PB_COLL_TRACE before the extension is loaded.
SetEnv(v) ==
    /\ calls = <<>>
    /\ PB_COLL_TRACE' = v
    /\ UNCHANGED <<hooks, HOOK_CACHE, torch_hooks, global_post_hooks, OPTIM_ITER,
                   next_tracer, coll_traced, calls, seen, stepped>>
    /\ UNCHANGED <<storeVars, regVars, laterVars>>

\* init(): register optimizer_step_post_hook globally, then collective_hook().
TorchInit ==
    /\ Len(calls) < MaxCalls
    /\ global_post_hooks' = global_post_hooks + 1
    /\ coll_traced' = (coll_traced \/ is_true(PB_COLL_TRACE))
    /\ calls' = Append(calls, "init")
    /\ stepped' = {}
    /\ UNCHANGED <<hooks, HOOK_CACHE, torch_hooks, OPTIM_ITER, next_tracer,
                   PB_COLL_TRACE, seen>>
    /\ UNCHANGED <<storeVars, regVars, laterVars>>

\* deinit(): uninstall_hooks().
TorchDeinit ==
    /\ Len(calls) < MaxCalls
    /\ CommitTorch(uninstall_hooks(TorchState))
    /\ calls' = Append(calls, "deinit")
    /\ seen' = seen \cup stepped
    /\ stepped' = {}
    /\ UNCHANGED <<global_post_hooks, PB_COLL_TRACE, coll_traced>>
    /\ UNCHANGED <<storeVars, regVars, laterVars>>

\* The host calls optimizer.step(): after the step, every registered
\* global post hook runs.
OptimizerStep(o) ==
    /\ CommitTorch(run_global_post_hooks(TorchState, o, global_post_hooks))
    /\ stepped' = stepped \cup {o}
    /\ UNCHANGED <<global_post_hooks, PB_COLL_TRACE, coll_traced, calls, seen>>
    /\ UNCHANGED <<storeVars, regVars, laterVars>>

NextTorch ==
    \/ \E v \in EnvValues : SetEnv(v)
    \/ TorchInit
    \/ TorchDeinit
    \/ \E o \in Optimizers : OptimizerStep(o)

(***************************************************************************)
(* Properties of the torch extension                                       *)
(***************************************************************************)

\* The calls so far are init, deinit, init, ... in alternation.
Alternating ==
    \A i \in 1..Len(calls) : calls[i] = (IF i % 2 = 1 THEN "init" ELSE "deinit")

HooksOn(obj) == {h \in torch_hooks : h.obj = obj}

\* C10: deinit undoes init and a later init restores it.  Right after
\* init(); deinit() no tracer hook is registered on any module or
\* optimizer; and after a following init(), once an optimizer seen before
\* the deinit has stepped again, the tracer hooks are installed on it and
\* exactly one global optimizer-step post hook is registered.
C10_DeinitUndoesInitRestores ==
    /\ (Alternating /\ Len(calls) = 2 /\ stepped = {}) => torch_hooks = {}
    /\ (Alternating /\ Len(calls) = 3) =>
          \A o \in seen \cap stepped :
              /\ HooksOn(o) # {}
              /\ global_post_hooks = 1

(***************************************************************************)
(* Part IV.  load_extension                                                *)
(***************************************************************************)

\* A module is named by the parts of its dotted path.  These are the
\* package's importable modules that share a part with another one.
ModuleFiles ==
    { <<"probing">>, <<"probing", "repl">>, <<"probing", "trace">>,
      <<"probing", "ext">>, <<"probing", "ext", "example">>,
      <<"probing", "ext", "torch">>, <<"probing", "torch">>,
      <<"probing", "table">>, <<"probing", "core">>,
      <<"probing", "core", "table">> }

AttrNames == {m[Len(m)] : m \in ModuleFiles}

NoAttr == <<>>

Parent(m) == SubSeq(m, 1, Len(m) - 1)

hasattr(at, m, name) == at[m][name] # NoAttr

\* importlib.import_module(name): a module already in sys.modules is
\* returned as it is; otherwise the parent is imported first, the module
\* is loaded, entered in sys.modules and bound as an attribute of its parent.
RECURSIVE import_module(_, _)
import_module(st, m) ==
    IF st.err # "" \/ m \in st.mods THEN st
    ELSE LET s1 == IF Len(m) = 1 THEN st ELSE import_module(st, Parent(m))
         IN  IF s1.err # "" THEN s1
             ELSE IF m \notin ModuleFiles
             THEN [s1 EXCEPT !.err = "ModuleNotFoundError"]
             ELSE [s1 EXCEPT !.mods = @ \cup {m},
                             !.attrs = IF Len(m) = 1 THEN @
                                       ELSE [@ EXCEPT ![Parent(m)][Last(m)] = m]]

\* for part in parts[1:]: the sub-module is imported unless `root`, the
\* top-level package, already has an attribute of that name.
RECURSIVE import_parts(_, _, _)
import_parts(st, parts, i) ==
    IF i > Len(parts) \/ st.err # "" THEN st
    ELSE import_parts(IF hasattr(st.attrs, <<parts[1]>>, parts[i]) THEN st
                      ELSE import_module(st, SubSeq(parts, 1, i)),
                      parts, i + 1)

\* eval(statement, None, {parts[0]: sys.modules[parts[0]]}): attribute
\* access along the path, starting at the top-level package.
RECURSIVE eval_statement(_, _, _, _)
eval_statement(at, obj, parts, i) ==
    IF i > Len(parts) THEN [ret |-> obj, err |-> ""]
    ELSE IF obj \notin ModuleFiles \/ ~hasattr(at, obj, parts[i])
    THEN [ret |-> NoAttr, err |-> "AttributeError"]
    ELSE eval_statement(at, at[obj][parts[i]], parts, i + 1)

load_extension(st, parts) ==
    LET s0 == IF <<parts[1]>> \notin st.mods
              THEN import_module(st, <<parts[1]>>) ELSE st
        s1 == import_parts(s0, parts, 2)
        v  == IF s1.err # "" THEN [ret |-> NoAttr, err |-> s1.err]
              ELSE eval_statement(s1.attrs, <<parts[1]>>, parts, 2)
    IN  [mods |-> s1.mods, attrs |-> s1.attrs, ret |-> v.ret, err |-> v.err]

ImportState == [mods |-> sys_modules, attrs |-> attrs, err |-> ""]

\* The interpreter once `import probing` has run: probing/__init__.py has
\* imported .trace and .repl.
InitLoader ==
    /\ sys_modules = {<<"probing">>, <<"probing", "repl">>, <<"probing", "trace">>}
    /\ attrs = [m \in ModuleFiles |-> [a \in AttrNames |->
                   IF m = <<"probing">> /\ a \in {"repl", "trace"}
                   THEN <<"probing", a>> ELSE NoAttr]]
    /\ loaded = [path |-> NoAttr, ret |-> NoAttr, err |-> ""]

\* The host program imports a module of the package.
ImportModule(m) ==
    /\ m \notin sys_modules
    /\ LET st == import_module(ImportState, m)
       IN  /\ sys_modules' = st.mods
           /\ attrs' = st.attrs
    /\ UNCHANGED loaded
    /\ UNCHANGED othersOfLoader

\* load_extension(statement) for an importable dotted module path.
LoadExtension(parts) ==
    LET st == load_extension(ImportState, parts)
    IN  /\ sys_modules' = st.mods
        /\ attrs' = st.attrs
        /\ loaded' = [path |-> parts, ret |-> st.ret, err |-> st.err]
        /\ UNCHANGED othersOfLoader

NextLoader ==
    \/ \E m \in ModuleFiles : ImportModule(m)
    \/ \E parts \in ModuleFiles : LoadExtension(parts)

(***************************************************************************)
(* Properties of load_extension                                            *)
(***************************************************************************)

\* C11: load_extension of an importable dotted path returns the module the
\* path names, and every module on the path is in sys.modules afterwards,
\* whatever was imported before and whatever attributes the top-level
\* package already has.
C11_LoadImportsWholePath ==
    loaded.path # NoAttr =>
        /\ loaded.err = ""
        /\ loaded.ret = loaded.path
        /\ \A k \in 1..Len(loaded.path) : SubSeq(loaded.path, 1, k) \in sys_modules

(***************************************************************************)
(* Part V.  Virtual python tables                                          *)
(*   The resolver is native code outside the Python sources; it is         *)
(*   modelled from section 4.C of the specification, on values shaped like *)
(*   those of python/probing/inspect/__init__.py.                          *)
(***************************************************************************)

\* Bound of the model: the longest sequence value.
MaxSeq == 2

\* Scalars are named by their text; a mapping is the sequence of its
\* (key, value) items in key order, its keys distinct.
PyScalars == {"1", "str"}
PyKeys    == {"int", "str"}
Null      == "null"

InjectiveSeqs(S, n) ==
    {s \in [1..n -> S] : \A i, j \in 1..n : i # j => s[i] # s[j]}

KeyOrders == UNION {InjectiveSeqs(PyKeys, n) : n \in 0..Cardinality(PyKeys)}

Scalar(s) == [kind |-> "scalar", s |-> s, items |-> <<>>, elems |-> <<>>]

Mapping(items) == [kind |-> "mapping", s |-> "", items |-> items, elems |-> <<>>]

Sequence(elems) == [kind |-> "sequence", s |-> "", items |-> <<>>, elems |-> elems]

NoValue == [kind |-> "none", s |-> "", items |-> <<>>, elems |-> <<>>]

ScalarValues == {Scalar(s) : s \in PyScalars}

MappingValues ==
    UNION {{Mapping([i \in 1..Len(ks) |-> [k |-> ks[i], v |-> vs[i]]]) :
               vs \in [1..Len(ks) -> PyScalars]} : ks \in KeyOrders}

SequenceValues ==
    UNION {{Sequence(e) : e \in [1..n -> ScalarValues] \cup [1..n -> MappingValues]} :
              n \in 1..MaxSeq}

PyValues == ScalarValues \cup MappingValues \cup SequenceValues

KeysOf(m) == [i \in 1..Len(m.items) |-> m.items[i].k]

KeySet(m) == {m.items[i].k : i \in 1..Len(m.items)}

\* The value a mapping holds for a key, null where it lacks the key.
Get(m, k) ==
    IF k \in KeySet(m)
    THEN m.items[CHOOSE i \in 1..Len(m.items) : m.items[i].k = k].v
    ELSE Null

\* Append to `names` the keys not yet in it.
RECURSIVE AddKeys(_, _)
AddKeys(names, ks) ==
    IF ks = <<>> THEN names
    ELSE AddKeys(IF \E i \in 1..Len(names) : names[i] = ks[1] THEN names
                 ELSE Append(names, ks[1]), Tail(ks))

\* Columns of a sequence of mappings: the union of the keys, each at its
\* first appearance.
RECURSIVE UnionKeysFrom(_, _)
UnionKeysFrom(names, elems) ==
    IF elems = <<>> THEN names
    ELSE UnionKeysFrom(AddKeys(names, KeysOf(elems[1])), Tail(elems))

UnionKeysOfFirst(elems) == KeysOf(elems[1])
UnionKeys(elems) == UnionKeysFrom(<<>>, elems)

RowOfMapping(m, names) == [j \in 1..Len(names) |-> Get(m, names[j])]

AllOfKind(elems, kind) == \A i \in 1..Len(elems) : elems[i].kind = kind

\* Materialise V into a one-shot table, by shape.
Materialise(V) ==
    CASE V.kind = "scalar" ->
             [names |-> <<"value">>, rows |-> << <<V.s>> >>]
      [] V.kind = "mapping" ->
             [names |-> KeysOf(V), rows |-> <<RowOfMapping(V, KeysOf(V))>>]
      [] V.kind = "sequence" /\ AllOfKind(V.elems, "scalar") ->
             [names |-> <<"value">>,
              rows |-> [i \in 1..Len(V.elems) |-> <<V.elems[i].s>>]]
      [] V.kind = "sequence" /\ AllOfKind(V.elems, "mapping") ->
             [names |-> UnionKeys(V.elems),
              rows |-> [i \in 1..Len(V.elems) |->
                           RowOfMapping(V.elems[i], UnionKeys(V.elems))]]

InitPy ==
    /\ pyvalue = NoValue
    /\ pytable = [names |-> <<>>, rows |-> <<>>]

\* select * from python.`<expr>`: evaluate the expression to V, materialise.
QueryPython(V) ==
    /\ pyvalue = NoValue
    /\ pyvalue' = V
    /\ pytable' = Materialise(V)
    /\ UNCHANGED othersOfPy

\* The table is one-shot: it is gone when the query has been answered.
EndQuery ==
    /\ pyvalue # NoValue
    /\ pyvalue' = NoValue
    /\ pytable' = [names |-> <<>>, rows |-> <<>>]
    /\ UNCHANGED othersOfPy

NextPy ==
    \/ \E V \in PyValues : QueryPython(V)
    \/ EndQuery

(***************************************************************************)
(* Properties of virtual python tables                                     *)
(***************************************************************************)

ColumnSet == {pytable.names[j] : j \in 1..Len(pytable.names)}

DistinctColumns ==
    \A i, j \in 1..Len(pytable.names) : i # j => pytable.names[i] # pytable.names[j]

\* C12: the table is materialised from V by shape.  A scalar gives one row
\* with the single column `value`; a mapping one row with one column per
\* key, in key order; a sequence of scalars the column `value` with one row
\* per element, in order; a sequence of mappings one column per key of the
\* union of the keys and one row per element, null where the element lacks
\* the key.
C12_MaterialisedByShape ==
    /\ pyvalue.kind = "scalar" =>
          /\ pytable.names = <<"value">>
          /\ pytable.rows = << <<pyvalue.s>> >>
    /\ pyvalue.kind = "mapping" =>
          /\ pytable.names = KeysOf(pyvalue)
          /\ Len(pytable.rows) = 1
          /\ \A j \in 1..Len(pyvalue.items) :
                 pytable.rows[1][j] = pyvalue.items[j].v
    /\ (pyvalue.kind = "sequence" /\ AllOfKind(pyvalue.elems, "scalar")) =>
          /\ pytable.names = <<"value">>
          /\ Len(pytable.rows) = Len(pyvalue.elems)
          /\ \A i \in 1..Len(pyvalue.elems) :
                 pytable.rows[i] = <<pyvalue.elems[i].s>>
    /\ (pyvalue.kind = "sequence" /\ AllOfKind(pyvalue.elems, "mapping")) =>
          /\ DistinctColumns
          /\ ColumnSet = UNION {KeySet(pyvalue.elems[i]) : i \in 1..Len(pyvalue.elems)}
          /\ Len(pytable.rows) = Len(pyvalue.elems)
          /\ \A i \in 1..Len(pyvalue.elems) :
                 /\ Len(pytable.rows[i]) = Len(pytable.names)
                 /\ \A j \in 1..Len(pytable.names) :
                        pytable.rows[i][j] =
                            IF pytable.names[j] \in KeySet(pyvalue.elems[i])
                            THEN Get(pyvalue.elems[i], pytable.names[j])
                            ELSE Null

\* A sequence of two mappings has been materialised, the second holding a
\* key the first lacks: two columns, and a null in the first row.
C12_Witness ==
    /\ pyvalue.kind = "sequence"
    /\ Len(pyvalue.elems) = 2
    /\ AllOfKind(pyvalue.elems, "mapping")
    /\ KeySet(pyvalue.elems[1]) = {"int"}
    /\ KeySet(pyvalue.elems[2]) = {"int", "str"}
    /\ pytable.names = <<"int", "str">>
    /\ pytable.rows[1][2] = Null

(***************************************************************************)
(* Part VI.  Process / script activator (python/probing_hook.py)           *)
(*   Strings are sequences of characters, so that startswith, split,       *)
(*   lower and basename are computed as the code computes them.            *)
(***************************************************************************)

\* PROBING not in os.environ / script_init is None.
Unset == <<"<unset>">>
None  == <<"<None>">>

W0        == <<"0">>
W1        == <<"1">>
W2        == <<"2">>
Wfollowed == <<"f", "o", "l", "l", "o", "w", "e", "d">>
Wnested   == <<"n", "e", "s", "t", "e", "d">>
WNested   == <<"N", "e", "s", "t", "e", "d">>
Wregex    == <<"r", "e", "g", "e", "x", ":">>
Winit     == <<"i", "n", "i", "t", ":">>
Wtorchrun == <<"t", "o", "r", "c", "h", "r", "u", "n">>
Wtrain    == <<"t", "r", "a", "i", "n", ".", "p", "y">>
Wserve    == <<"s", "e", "r", "v", "e", ".", "p", "y">>
Wsetup    == <<"s", ".", "p", "y">>
PatTrain  == <<"^", "t", "r", "a", "i", "n">>
PatBad    == <<"[">>

\* Settings a launch may carry, and the values of PROBING built from them.
Settings ==
    {W0, W1, W2, Wfollowed, WNested, Wregex \o PatTrain, Wregex \o PatBad, Wtrain}

ProbingValues ==
    {Unset} \cup Settings \cup {Winit \o Wsetup}
            \cup {Winit \o Wsetup \o <<"+">> \o v : v \in Settings}

\* sys.argv[0]
Argv0s ==
    { Wtrain, <<"j", "o", "b", "/">> \o Wtrain, Wserve,
      <<"b", "i", "n", "/">> \o Wtorchrun }

\* What `import probing` and the init script do in this host.
ScriptOutcomes == {"ok", "unreadable", "raises"}

\* str.startswith(prefix)
startswith(s, p) == Len(s) >= Len(p) /\ SubSeq(s, 1, Len(p)) = p

\* Position of the first occurrence of the character c in s, 0 if none.
Find(s, c) ==
    IF \E i \in 1..Len(s) : s[i] = c
    THEN CHOOSE i \in 1..Len(s) : s[i] = c /\ \A j \in 1..(i - 1) : s[j] # c
    ELSE 0

\* str.split(sep, 1)
split_once(s, sep) ==
    IF Find(s, sep) = 0 THEN <<s>>
    ELSE <<SubSeq(s, 1, Find(s, sep) - 1), SubSeq(s, Find(s, sep) + 1, Len(s))>>

\* os.path.basename(path): what follows the last "/".
RECURSIVE basename(_)
basename(path) ==
    IF Find(path, "/") = 0 THEN path
    ELSE basename(SubSeq(path, Find(path, "/") + 1, Len(path)))

\* get_current_script_name()
get_current_script_name(argv) == basename(argv)

\* s occurs in t.
Contains(t, s) ==
    \E i \in 0..(Len(t) - Len(s)) : SubSeq(t, i + 1, i + Len(s)) = s

\* re.search(pattern, s) for literal patterns with an optional "^" anchor;
\* an unterminated "[" is an invalid pattern (re.error).
re_search_any(pattern, s) == "match"
re_search(pattern, s) ==
    IF Find(pattern, "[") # 0 THEN "error"
    ELSE IF pattern # <<>> /\ pattern[1] = "^"
    THEN (IF startswith(s, Tail(pattern)) THEN "match" ELSE "none")
    ELSE (IF Contains(s, pattern) THEN "match" ELSE "none")

\* re.fullmatch("torchrun", current_script) is not None
is_torchrun(s) == s = Wtorchrun

\* probe_value.lower() in ["1", "followed"] / ["2", "nested"] / "regex:..."
is_followed(v) == lower(v) \in {W1, Wfollowed}
is_nested(v)   == lower(v) \in {W2, Wnested}
is_regex(v)    == startswith(lower(v), Wregex)

\* `except Exception`: every failure modelled here is an Exception.
Exceptions == {"ImportError", "re.error", "OSError", "Exception"}

except_ImportError_only(exc) == exc = "ImportError"
except_Exception(exc) == exc \in Exceptions

\* The try block a statement of init_probing runs in.
Site == IF is_regex(probe_value) THEN "regex" ELSE "init_probing"

\* An exception raised inside init_probing: the regex branch's own handler,
\* then `except ImportError`, `except Exception`, then the module's handler.
Handled(exc, site) ==
    \/ site = "regex" /\ except_Exception(exc)
    \/ exc = "ImportError"
    \/ except_Exception(exc)
    \/ except_Exception(exc)

InitActivator ==
    /\ environ = Unset
    /\ argv0 = <<>>
    /\ host = [received |-> Unset, importable |-> TRUE, script |-> "ok"]
    /\ probe_value = W0
    /\ current_script = <<>>
    /\ script_init = None
    /\ apc = "boot"
    /\ todo = <<>>
    /\ attached = FALSE
    /\ events = <<>>
    /\ escaped = FALSE

\* A process is started with its environment and argv.
Launch(p, a, imp, sc) ==
    /\ apc = "boot"
    /\ environ' = p
    /\ argv0' = a
    /\ host' = [received |-> p, importable |-> imp, script |-> sc]
    /\ apc' = "module"
    /\ UNCHANGED <<probe_value, current_script, script_init, todo, attached,
                   events, escaped>>
    /\ UNCHANGED othersOfAct

\* Module level: read PROBING (default "0"), the script name, and split an
\* init: value into the script path and the setting (default "0").
ModuleTop ==
    /\ apc = "module"
    /\ LET v     == IF environ = Unset THEN W0 ELSE environ
           parts == split_once(v, "+")
       IN  IF startswith(v, Winit)
           THEN /\ script_init' = SubSeq(parts[1], 6, Len(parts[1]))
                /\ probe_value' = IF Len(parts) > 1 THEN parts[2] ELSE W0
           ELSE /\ script_init' = None
                /\ probe_value' = v
    /\ current_script' = get_current_script_name(argv0)
    /\ apc' = "guard"
    /\ UNCHANGED <<environ, argv0, host, todo, attached, events, escaped>>
    /\ UNCHANGED othersOfAct

\* Module level: init_probing() is called unless the script is torchrun.
Guard ==
    /\ apc = "guard"
    /\ apc' = IF is_torchrun(current_script) THEN "done" ELSE "init_probing"
    /\ UNCHANGED <<environ, argv0, host, probe_value, current_script,
                   script_init, todo, attached, events, escaped>>
    /\ UNCHANGED othersOfAct

\* init_probing: remove the variable; it is set back if needed.
ClearEnv ==
    /\ apc = "init_probing"
    /\ environ' = Unset
    /\ apc' = "branch"
    /\ UNCHANGED <<argv0, host, probe_value, current_script, script_init,
                   todo, attached, events, escaped>>
    /\ UNCHANGED othersOfAct

\* An exception ends init_probing; unless a handler catches it, it escapes
\* the module into the host's start-up.
Raise(exc) ==
    /\ escaped' = ~Handled(exc, Site)
    /\ events' = Append(events, exc)
    /\ todo' = <<>>
    /\ apc' = "done"

\* The statements of the branch init_probing takes, in the order of the code.
BranchPlan(v, script) ==
    IF is_followed(v) THEN <<"import", "init">>
    ELSE IF is_nested(v) THEN <<"import", "setenv", "init">>
    ELSE IF is_regex(v)
    THEN (IF re_search(split_once(v, ":")[2], script) = "match"
          THEN <<"import", "init", "setenv">> ELSE <<"setenv">>)
    ELSE IF v # W0
    THEN (IF v = script THEN <<"import", "init", "setenv">> ELSE <<"setenv">>)
    ELSE <<>>

\* init_probing: choose the branch; an invalid regex pattern raises here.
Branch ==
    /\ apc = "branch"
    /\ IF is_regex(probe_value) /\ ~is_followed(probe_value) /\ ~is_nested(probe_value)
          /\ re_search(split_once(probe_value, ":")[2], current_script) = "error"
       THEN Raise("re.error")
       ELSE /\ todo' = BranchPlan(probe_value, current_script)
            /\ apc' = "run"
            /\ UNCHANGED <<events, escaped>>
    /\ UNCHANGED <<environ, argv0, host, probe_value, current_script,
                   script_init, attached>>
    /\ UNCHANGED othersOfAct

\* import probing
Import ==
    /\ apc = "run" /\ todo # <<>> /\ Head(todo) = "import"
    /\ IF host.importable
       THEN /\ attached' = TRUE
            /\ events' = Append(events, "import")
            /\ todo' = Tail(todo)
            /\ UNCHANGED <<apc, escaped>>
       ELSE /\ Raise("ImportError")
            /\ UNCHANGED attached
    /\ UNCHANGED <<environ, argv0, host, probe_value, current_script, script_init>>
    /\ UNCHANGED othersOfAct

\* execute_init_script()
ExecInit ==
    /\ apc = "run" /\ todo # <<>> /\ Head(todo) = "init"
    /\ IF script_init = None
       THEN /\ todo' = Tail(todo)
            /\ UNCHANGED <<apc, events, escaped>>
       ELSE IF host.script = "unreadable"
       THEN Raise("OSError")
       ELSE IF host.script = "raises"
       THEN Raise("Exception")
       ELSE /\ events' = Append(events, "init_script")
            /\ todo' = Tail(todo)
            /\ UNCHANGED <<apc, escaped>>
    /\ UNCHANGED <<environ, argv0, host, probe_value, current_script,
                   script_init, attached>>
    /\ UNCHANGED othersOfAct

\* os.environ["PROBING"] = probe_value
Preserve ==
    /\ apc = "run" /\ todo # <<>> /\ Head(todo) = "setenv"
    /\ environ' = probe_value
    /\ todo' = Tail(todo)
    /\ UNCHANGED <<argv0, host, probe_value, current_script, script_init,
                   apc, attached, events, escaped>>
    /\ UNCHANGED othersOfAct

\* init_probing returns; the host program runs on.
Return ==
    /\ apc = "run" /\ todo = <<>>
    /\ apc' = "done"
    /\ UNCHANGED <<environ, argv0, host, probe_value, current_script,
                   script_init, todo, attached, events, escaped>>
    /\ UNCHANGED othersOfAct

NextActivator ==
    \/ \E p \in ProbingValues, a \in Argv0s, imp \in BOOLEAN, sc \in ScriptOutcomes :
           Launch(p, a, imp, sc)
    \/ ModuleTop
    \/ Guard
    \/ ClearEnv
    \/ Branch
    \/ Import
    \/ ExecInit
    \/ Preserve
    \/ Return

(***************************************************************************)
(* Properties of the activator                                             *)
(***************************************************************************)

\* The patterns of the model that match each script name.
MatchTable == {<<PatTrain, Wtrain>>}

\* The setting selects this process: 1/followed, 2/nested, a regex that
\* matches the script's basename, or the basename itself.
Selected ==
    \/ lower(probe_value) \in {W1, Wfollowed, W2, Wnested}
    \/ /\ startswith(lower(probe_value), Wregex)
       /\ <<SubSeq(probe_value, Len(Wregex) + 1, Len(probe_value)),
            basename(argv0)>> \in MatchTable
    \/ probe_value = basename(argv0)

NameMode(v) ==
    v # W0 /\ ~is_followed(v) /\ ~is_nested(v) /\ ~is_regex(v)

ValidRegexMode(v) ==
    is_regex(v) /\ Find(v, "[") = 0

\* C14: once init_probing has run, the PROBING variable children inherit
\* is absent in mode 1/followed, and is exactly the value this process
\* received in mode 2/nested, regex:PATTERN (a valid pattern) or script
\* name, whether or not this process attached.
C14_ChildrenInherit ==
    (apc = "done" /\ ~is_torchrun(current_script)) =>
        /\ is_followed(probe_value) => environ = Unset
        /\ (is_nested(probe_value) \/ ValidRegexMode(probe_value)
               \/ NameMode(probe_value)) => environ = host.received

Count(s, e) == Cardinality({i \in 1..Len(s) : s[i] = e})

\* C15: with PROBING=init:PATH[+VALUE], a readable init script that does
\* not raise and no other failure, once init_probing has run the script has
\* been executed exactly once, before the agent was imported, whatever
\* VALUE is.
C15_InitScriptOnceFirst ==
    (/\ apc = "done"
     /\ script_init # None
     /\ host.script = "ok" /\ host.importable
     /\ \A i \in 1..Len(events) : events[i] \notin Exceptions
     /\ ~is_torchrun(current_script)) =>
        /\ Count(events, "init_script") = 1
        /\ \A i, j \in 1..Len(events) :
               (events[i] = "init_script" /\ events[j] = "import") => i < j

MaxPushes == 4

\* "def f():", an indented line, an empty line, "print('a')", "1/0",
\* "print('a'); 1/0", "x = 10", "x", and a line that is not Python.
ReplLines ==
    {"open", "body", "blank", "print", "raise", "print_raise", "assign",
     "expr", "bad"}

\* Lines a client sends next: a block is continued by indented lines and
\* closed by an empty line.
NextLines(buf) ==
    IF buf = <<>> THEN ReplLines \ {"body"}
    ELSE IF Last(buf) = "open" THEN {"body"}
    ELSE {"body", "blank"}

\* The position of the first line that opens a block, or 0.
FirstOpen(buf) ==
    IF \E i \in 1..Len(buf) : buf[i] = "open"
    THEN CHOOSE i \in 1..Len(buf) :
             buf[i] = "open" /\ \A j \in 1..(i - 1) : buf[j] # "open"
    ELSE 0

\* The lines of the source that are a statement of their own.
Statements(buf) == SelectSeq(buf, LAMBDA l : l \notin {"blank", "body"})

\* self.compile(source, "<input>", "single") of codeop: a code object, None
\* for an incomplete block, or SyntaxError (a line that is not Python, or
\* more than one statement).
compile_single(buf) ==
    IF \E i \in 1..Len(buf) : buf[i] = "bad" THEN "SyntaxError"
    ELSE IF FirstOpen(buf) # 0
                /\ ~(Len(buf) - FirstOpen(buf) >= 2 /\ Last(buf) = "blank")
    THEN "None"
    ELSE IF Len(Statements(buf)) > 1 THEN "SyntaxError"
    ELSE "code"

\* The kernel runs the statements of a cell in order up to the first that
\* raises; `st` is what has been written and whether it raised so far.
RECURSIVE run_statements(_, _)
run_statements(stmts, st) ==
    IF stmts = <<>> \/ st.raised THEN st
    ELSE run_statements(Tail(stmts),
             CASE stmts[1] = "print" -> [st EXCEPT !.wrote = Append(@, "a")]
               [] stmts[1] = "raise" -> [st EXCEPT !.raised = TRUE]
               [] stmts[1] = "print_raise" ->
                      [st EXCEPT !.wrote = Append(@, "a"), !.raised = TRUE]
               [] stmts[1] = "expr" /\ Len(stmts) = 1 ->
                      [st EXCEPT !.shown = <<"10">>]
               [] OTHER -> st)

\* What running the source in the kernel does: text written to stdout /
\* stderr, the value displayed, and whether it raised.
Behaviour(buf) ==
    IF \E i \in 1..Len(buf) : buf[i] = "bad"
    THEN [wrote |-> <<>>, shown |-> <<>>, raised |-> TRUE]
    ELSE run_statements(Statements(buf),
                        [wrote |-> <<>>, shown |-> <<>>, raised |-> FALSE])

\* self.kc.execute(code): the kernel runs the code, publishes its output on
\* the iopub channel and answers on the shell channel.
kc_execute(buf) ==
    LET b == Behaviour(buf)
    IN  [shell |-> IF b.raised
                   THEN [status |-> "error", traceback |-> <<"Traceback">>]
                   ELSE [status |-> "ok", traceback |-> <<>>],
         iopub |-> [i \in 1..Len(b.wrote) |->
                       [msg_type |-> "stream", text |-> b.wrote[i]]]
                   \o [i \in 1..Len(b.shown) |->
                          [msg_type |-> "execute_result", text |-> b.shown[i]]]
                   \o (IF b.raised THEN <<[msg_type |-> "error", text |-> ""]>>
                       ELSE <<>>)]

\* "".join(output) over the stream and execute_result messages.
RECURSIVE join_output(_)
join_output(q) ==
    IF q = <<>> THEN <<>>
    ELSE (IF q[1].msg_type \in {"stream", "execute_result"} THEN <<q[1].text>>
          ELSE <<>>) \o join_output(Tail(q))

\* ExecutionResult(...).to_json(): the three fields, always.
ExecutionResult(status, output, traceback) ==
    [keys |-> {"status", "output", "traceback"}, status |-> status,
     output |-> output, traceback |-> traceback]

\* json.dumps({})
EmptyReply == [keys |-> {}, status |-> "", output |-> <<>>, traceback |-> <<>>]

\* CodeExecutor.execute(code): on status error the reply is returned at
\* once; otherwise every message waiting on the iopub channel is read.
execute(q, buf) ==
    LET k   == kc_execute(buf)
        all == q \o k.iopub
    IN  IF k.shell.status = "error"
        THEN [result |-> ExecutionResult("error", <<>>, k.shell.traceback),
              iopub |-> all]
        ELSE [result |-> ExecutionResult("ok", join_output(all), <<>>),
              iopub |-> <<>>]

\* What push returns when an exception reached its handler: None.
NoReply == [keys |-> {}, status |-> "None", output |-> <<>>, traceback |-> <<>>]

\* How CodeExecutor.execute may fail: get_shell_msg(timeout=5) raises
\* queue.Empty when the kernel does not answer in time.
ExecutorFaults == {"none", "Empty"}

InitRepl ==
    /\ buffer = <<>>
    /\ iopub = <<>>
    /\ reply = EmptyReply
    /\ last = [executed |-> FALSE, incomplete |-> FALSE, raised |-> FALSE,
               failed |-> FALSE, wrote |-> <<>>, source |-> <<>>,
               fresh |-> <<>>]
    /\ npush = 0

\* DebugConsole.push(code): append to the buffer, runsource the joined
\* buffer; an incomplete source gives json.dumps({}), anything else is
\* executed (a source that does not compile too) and the buffer reset.  An
\* exception out of execute skips resetbuffer and is caught by push, which
\* returns None.  The client continues a block only after an incomplete
\* report.
Push(line, fault) ==
    /\ npush < MaxPushes
    /\ line \in NextLines(IF last.incomplete THEN buffer ELSE <<>>)
    /\ npush' = npush + 1
    /\ LET source == Append(buffer, line)
           fresh  == IF last.incomplete THEN Append(last.fresh, line) ELSE <<line>>
       IN  IF compile_single(source) = "None"
           THEN /\ buffer' = source
                /\ reply' = EmptyReply
                /\ last' = [executed |-> FALSE, incomplete |-> TRUE,
                            raised |-> FALSE, failed |-> FALSE, wrote |-> <<>>,
                            source |-> source, fresh |-> fresh]
                /\ UNCHANGED iopub
           ELSE IF fault # "none"
           THEN /\ buffer' = source
                /\ reply' = NoReply
                /\ last' = [executed |-> FALSE, incomplete |-> FALSE,
                            raised |-> FALSE, failed |-> TRUE, wrote |-> <<>>,
                            source |-> source, fresh |-> fresh]
                /\ UNCHANGED iopub
           ELSE LET r == execute(iopub, source)
                    b == Behaviour(source)
                IN  /\ buffer' = <<>>
                    /\ reply' = r.result
                    /\ iopub' = r.iopub
                    /\ last' = [executed |-> TRUE, incomplete |-> FALSE,
                                raised |-> b.raised, failed |-> FALSE,
                                wrote |-> b.wrote \o b.shown,
                                source |-> source, fresh |-> fresh]
    /\ UNCHANGED othersOfRepl

NextRepl == \E line \in ReplLines : \E fault \in ExecutorFaults : Push(line, fault)

(***************************************************************************)
(* Properties of the REPL executor                                         *)
(***************************************************************************)

\* C17: pushing an incomplete fragment returns a reply whose status is the
\* sentinel `continue`.
C17_IncompleteGivesContinue ==
    last.incomplete => ("status" \in reply.keys /\ reply.status = "continue")

\* C18: a request that executes code yields {status, output, traceback};
\* status is `error` with a non-empty traceback exactly when the code
\* raised, and otherwise `ok` with the output the code wrote.
C18_StructuredReply ==
    last.executed =>
        /\ reply.keys = {"status", "output", "traceback"}
        /\ reply.status \in {"ok", "error"}
        /\ (reply.status = "error") <=> last.raised
        /\ reply.status = "error" => reply.traceback # <<>>
        /\ reply.status = "ok" => reply.output = last.wrote

\* s is t with some elements left out.
RECURSIVE IsSubSeq(_, _)
IsSubSeq(s, t) ==
    IF s = <<>> THEN TRUE
    ELSE IF t = <<>> THEN FALSE
    ELSE IF s[1] = t[1] THEN IsSubSeq(Tail(s), Tail(t))
    ELSE IsSubSeq(s, Tail(t))

\* C36: the output field of the reply to a request contains only text
\* produced by executing that request: text printed by an earlier request
\* never appears in the reply to a later one.
C36_OutputOnlyOwnText ==
    last.executed => IsSubSeq(reply.output, last.wrote)

\* C37: after any push that is not reported as an incomplete fragment the
\* input buffer is empty, also when the pushed code had a syntax error,
\* raised, or the executor failed or timed out; only lines pushed since
\* the last incomplete report are ever joined with a new push.
C37_BufferEmptyAfterPush ==
    /\ (npush > 0 /\ ~last.incomplete) => buffer = <<>>
    /\ last.source = last.fresh

(***************************************************************************)
(* Part VIII.  Sampler of the torch probe                                  *)
(*   (python/probing/profiling/torch_probe.py, profiling/types.py)         *)
(*   Rates are written in percent: 100 is the rate 1.0.                    *)
(***************************************************************************)

\* Bounds of the model: training steps run, set_sampling_mode calls made.
MaxSteps == 4
MaxSets  == 2

\* The objects whose hooks fire, the length of the name each is registered
\* under, and the hooks of one training step, in the order they fire.
ProbeMods == {"model", "model.layer", "opt1"}

NameLen(m) ==
    CASE m = "model" -> 5 [] m = "model.layer" -> 11 [] m = "opt1" -> 3

StepProgram ==
    << [stage |-> "pre forward",  mod |-> "model"],
       [stage |-> "pre forward",  mod |-> "model.layer"],
       [stage |-> "post forward", mod |-> "model.layer"],
       [stage |-> "post forward", mod |-> "model"],
       [stage |-> "pre step",     mod |-> "opt1"],
       [stage |-> "post step",    mod |-> "opt1"] >>

NoMod == "None"

Wordered == <<"o", "r", "d", "e", "r", "e", "d">>
Wrandom  == <<"r", "a", "n", "d", "o", "m">>
Winvalid == <<"i", "n", "v", "a", "l", "i", "d">>
Colon    == <<":">>
R05      == <<"0", ".", "5">>
R10      == <<"1", ".", "0">>
R15      == <<"1", ".", "5">>
R0       == <<"0">>
Rabc     == <<"a", "b", "c">>

\* Expressions passed to set_sampling_mode.
SamplingExprs ==
    { Wordered, Wrandom, <<>>,
      Wordered \o Colon \o R05, Wordered \o Colon \o R10,
      Wrandom \o Colon \o R05, Wrandom \o Colon \o R10,
      Winvalid \o Colon \o R05, Winvalid \o Colon \o R15,
      Wrandom \o Colon \o R15, Wrandom \o Colon \o R0,
      Wrandom \o Colon \o Rabc, Wrandom \o Colon \o R05 \o Colon \o R10 }

\* str.split(sep)
RECURSIVE split_all(_, _)
split_all(s, sep) ==
    IF Find(s, sep) = 0 THEN <<s>>
    ELSE <<SubSeq(s, 1, Find(s, sep) - 1)>>
         \o split_all(SubSeq(s, Find(s, sep) + 1, Len(s)), sep)

\* float(rate), in percent; -1 stands for ValueError.
float_percent(tok) ==
    CASE tok = R05 -> 50 [] tok = R10 -> 100 [] tok = R15 -> 150
      [] tok = R0 -> 0 [] OTHER -> -1

\* The mode as the sampler stores it.
mode_of(tok) ==
    CASE tok = Wordered -> "ordered" [] tok = Wrandom -> "random"
      [] OTHER -> "other"

\* random.random() < rate: random() is in [0, 1).
Bernoulli(r) ==
    IF r >= 100 THEN {TRUE} ELSE IF r <= 0 THEN {FALSE} ELSE BOOLEAN

\* Sampler.set_sampling_mode(expr)
set_sampling_mode(st, expr) ==
    IF expr = Wordered THEN [st EXCEPT !.mode = "ordered", !.rate = 100]
    ELSE LET parts == split_all(expr, ":")
         IN  IF Len(parts) # 2
             THEN [st EXCEPT !.mode = "ordered", !.rate = 100]
             ELSE LET m == IF mode_of(parts[1]) \in {"ordered", "random"}
                           THEN mode_of(parts[1]) ELSE "ordered"
                      f == float_percent(parts[2])
                  IN  IF f = -1
                      THEN [st EXCEPT !.mode = "ordered", !.rate = 100]
                      ELSE [st EXCEPT !.mode = m,
                                      !.rate = IF 0 < f /\ f <= 100 THEN f ELSE 100]

\* Insert id m into a queue sorted by name length, after the ids whose name
\* is not longer (sorted() is stable).
RECURSIVE insert_sorted(_, _)
insert_sorted(q, m) ==
    IF q = <<>> THEN <<m>>
    ELSE IF NameLen(q[1]) <= NameLen(m) THEN <<q[1]>> \o insert_sorted(Tail(q), m)
    ELSE <<m>> \o q

\* sorted(self.mod_names.items(), key=lambda x: len(x[1]))
RECURSIVE sorted_by_name_len(_)
sorted_by_name_len(names) ==
    IF names = <<>> THEN <<>>
    ELSE insert_sorted(sorted_by_name_len(SubSeq(names, 1, Len(names) - 1)),
                       names[Len(names)])

SamplerState ==
    [mode |-> mode, rate |-> rate, mod_names |-> mod_names,
     mod_queue |-> mod_queue, curr_idx |-> curr_idx, curr_mod |-> curr_mod,
     finalized |-> finalized, sampled_step |-> sampled_step]

\* Sampler.register_mod(mod)
register_mod(st, m) ==
    IF st.finalized \/ \E i \in 1..Len(st.mod_names) : st.mod_names[i] = m
    THEN st
    ELSE [st EXCEPT !.mod_names = Append(@, m)]

\* Sampler.finalize_discovery()
finalize_discovery(st) ==
    LET q == sorted_by_name_len(st.mod_names)
    IN  [st EXCEPT !.finalized = TRUE, !.mod_queue = q,
                   !.curr_idx = IF q # <<>> THEN 0 ELSE @,
                   !.curr_mod = IF q # <<>> THEN q[1] ELSE @]

\* Sampler.should_sample(mod); u is the outcome of random.random() < rate.
should_sample_always(st, m, offset, u) == st.finalized /\ st.sampled_step
should_sample(st, m, offset, u) ==
    IF ~st.finalized THEN FALSE
    ELSE IF ~st.sampled_step THEN FALSE
    ELSE IF offset = 0 THEN TRUE
    ELSE IF st.mode = "ordered" THEN m = st.curr_mod
    ELSE u

\* Sampler.next_mod(); v is the outcome of random.random() < rate.
next_mod_stay(st, v) == [st EXCEPT !.sampled_step = v]
next_mod(st, v) ==
    IF st.mod_queue # <<>> /\ st.mode = "ordered"
    THEN LET idx == (st.curr_idx + 1) % Len(st.mod_queue)
         IN  [st EXCEPT !.sampled_step = v, !.curr_idx = idx,
                        !.curr_mod = st.mod_queue[idx + 1]]
    ELSE st

InitSampler ==
    /\ mode = "ordered"
    /\ rate = 100
    /\ mod_names = <<>>
    /\ mod_queue = <<>>
    /\ curr_idx = 0
    /\ curr_mod = NoMod
    /\ finalized = FALSE
    /\ sampled_step = TRUE
    /\ MODULE_CALL_OFFSET = 0
    /\ CURRENT_MODULE = NoMod
    /\ CURRENT_STAGE = NoMod
    /\ curr_step = 0
    /\ hpc = 1
    /\ sampled_now = {}
    /\ visits = <<>>
    /\ full_rate = TRUE
    /\ last_set = [n |-> 0, expr |-> Wordered]

CommitSampler(st) ==
    /\ mode' = st.mode
    /\ rate' = st.rate
    /\ mod_names' = st.mod_names
    /\ mod_queue' = st.mod_queue
    /\ curr_idx' = st.curr_idx
    /\ curr_mod' = st.curr_mod
    /\ finalized' = st.finalized
    /\ sampled_step' = st.sampled_step

\* BaseTracer.process_hook(module, stage)
process_hook_always(m, stage) ==
    /\ MODULE_CALL_OFFSET' = MODULE_CALL_OFFSET + 1
    /\ CURRENT_MODULE' = m
    /\ CURRENT_STAGE' = stage
process_hook(m, stage) ==
    IF CURRENT_MODULE # m \/ CURRENT_STAGE # stage
    THEN /\ MODULE_CALL_OFFSET' = MODULE_CALL_OFFSET + 1
         /\ CURRENT_MODULE' = m
         /\ CURRENT_STAGE' = stage
    ELSE UNCHANGED <<MODULE_CALL_OFFSET, CURRENT_MODULE, CURRENT_STAGE>>

\* The configuration knob calls set_sampling_mode(expr) between two steps.
SetSamplingMode(expr) ==
    /\ hpc = 1
    /\ last_set.n < MaxSets
    /\ CommitSampler(set_sampling_mode(SamplerState, expr))
    /\ last_set' = [n |-> last_set.n + 1, expr |-> expr]
    /\ full_rate' = (full_rate /\ rate' = 100)
    /\ UNCHANGED <<MODULE_CALL_OFFSET, CURRENT_MODULE, CURRENT_STAGE, curr_step,
                   hpc, sampled_now, visits>>
    /\ UNCHANGED othersOfSampler

\* A forward hook or the optimizer's pre-step hook: log_module_stage
\* (should_sample, which registers the module during discovery), then
\* process_hook.
Hook(u) ==
    /\ hpc < Len(StepProgram)
    /\ hpc = 1 => curr_step < MaxSteps
    /\ LET h == StepProgram[hpc]
       IN  /\ sampled_now' =
                 IF should_sample(SamplerState, h.mod, MODULE_CALL_OFFSET, u)
                 THEN sampled_now \cup {h.mod} ELSE sampled_now
           /\ CommitSampler(IF finalized THEN SamplerState
                            ELSE register_mod(SamplerState, h.mod))
           /\ process_hook(h.mod, h.stage)
    /\ hpc' = hpc + 1
    /\ UNCHANGED <<curr_step, visits, full_rate, last_set>>
    /\ UNCHANGED othersOfSampler

\* TorchProbe.post_step_hook: the base hook (log_module_stage, process_hook,
\* offset reset, next_step()), then finalize_discovery() at the first step
\* and curr_step += 1; next_mod() at the later ones.
PostStep(u, v) ==
    /\ hpc = Len(StepProgram)
    /\ LET h   == StepProgram[hpc]
           s   == should_sample(SamplerState, h.mod, MODULE_CALL_OFFSET, u)
           st1 == IF finalized THEN SamplerState
                  ELSE register_mod(SamplerState, h.mod)
       IN  /\ CommitSampler(IF finalized THEN next_mod(st1, v)
                            ELSE finalize_discovery(st1))
           /\ visits' = IF finalized
                        THEN Append(visits,
                                 [mode |-> mode, rate |-> rate, full |-> full_rate,
                                  sampled |-> IF s THEN sampled_now \cup {h.mod}
                                              ELSE sampled_now])
                        ELSE visits
           /\ CURRENT_MODULE' = h.mod
           /\ CURRENT_STAGE' = h.stage
    /\ MODULE_CALL_OFFSET' = 0
    /\ curr_step' = IF finalized THEN curr_step + 1 ELSE curr_step
    /\ sampled_now' = {}
    /\ hpc' = 1
    /\ OPTIM_ITER' = OPTIM_ITER + 1
    /\ UNCHANGED <<full_rate, last_set>>
    /\ UNCHANGED <<hooks, HOOK_CACHE, torch_hooks, global_post_hooks, next_tracer,
                   PB_COLL_TRACE, coll_traced, calls, seen, stepped>>
    /\ UNCHANGED <<storeVars, regVars, siblingsOfSampler>>

NextSampler ==
    \/ \E expr \in SamplingExprs : SetSamplingMode(expr)
    \/ \E u \in Bernoulli(rate) : Hook(u)
    \/ \E u \in Bernoulli(rate), v \in Bernoulli(rate) : PostStep(u, v)

(***************************************************************************)
(* Properties of the sampler                                               *)
(***************************************************************************)

\* Steady steps i .. i + |modules| - 1 have all run, each in ordered mode.
OrderedWindow(i) ==
    /\ mod_queue # <<>>
    /\ i + Len(mod_queue) - 1 <= Len(visits)
    /\ \A k \in i..(i + Len(mod_queue) - 1) : visits[k].mode = "ordered"

\* Every registered module was sampled in some step of the window at i.
AllVisited(i) ==
    \A j \in 1..Len(mod_queue) :
        \E k \in i..(i + Len(mod_queue) - 1) : mod_queue[j] \in visits[k].sampled

\* C19 as stated: in ordered mode, for every rate in (0,1], each module
\* registered during discovery is sampled in at least one step of every
\* window of |modules| consecutive steady steps.
C19_OrderedVisitsAll ==
    \A i \in 1..Len(visits) : OrderedWindow(i) => AllVisited(i)

\* C19 as amended: the same while the rate has been 1.0 all along.
C19_OrderedVisitsAllAtFullRate ==
    \A i \in 1..Len(visits) :
        (OrderedWindow(i) /\ \A k \in i..(i + Len(mod_queue) - 1) : visits[k].full)
            => AllVisited(i)

\* Four steady steps have run in ordered mode at rate 1.0; the victim of
\* the third, the module with the longest name, was sampled in it only.
C19_Witness ==
    /\ Len(visits) = 4
    /\ Len(mod_queue) = 3
    /\ OrderedWindow(1) /\ OrderedWindow(2)
    /\ \A k \in 1..4 : visits[k].full
    /\ \A k \in 1..4 : ("model.layer" \in visits[k].sampled) <=> (k = 3)

\* The expressions of the model that are a valid `mode:rate` pair.
ValidExprs ==
    { Wordered \o Colon \o R05, Wordered \o Colon \o R10,
      Wrandom \o Colon \o R05, Wrandom \o Colon \o R10 }

\* C20: set_sampling_mode(expr) with an expr that is not a valid
\* `mode:rate` pair leaves the sampler at mode = ordered and rate = 1.0.
C20_InvalidRevertsToDefault ==
    (last_set.n > 0 /\ last_set.expr \notin ValidExprs) =>
        (mode = "ordered" /\ rate = 100)

\* Some hook can still be sampled while the mode stays as it is: the step
\* is a sampled one, or next_mod() will draw sampled_step again.
CanSample == sampled_step \/ (mode = "ordered" /\ mod_queue # <<>>)

\* C34: in the steady phase with mode = random every hook is subject to a
\* Bernoulli trial: there is no reachable state, after any sequence of
\* steps and set_sampling_mode calls, in which the mode is random and no
\* hook can be sampled any more.
C34_RandomKeepsSampling == (finalized /\ mode = "random") => CanSample

(***************************************************************************)
(* Part IX.  Construction of the tracer (python/probing/ext/torch.py)      *)
(*   Rates are written in percent, as in Part VIII.                        *)
(***************************************************************************)

\* The environment variables optimizer_step_post_hook reads.
TorchKeys ==
    {"PROBING_TORCH_PROFILING_MODE", "PROBING_TORCH_SAMPLE_RATE",
     "PROBING_TORCH_TRACEPY", "PROBING_TORCH_SYNC"}

NotSet == "<unset>"

\* The values the host gives each variable.
TorchEnvValues(k) ==
    CASE k = "PROBING_TORCH_PROFILING_MODE" -> {"ordered", "random"}
      [] k = "PROBING_TORCH_SAMPLE_RATE" -> {"0.5", "1.0", "abc"}
      [] OTHER -> {"True", "0"}

\* os.getenv(key, default)
getenv(env, key, default) == IF env[key] = NotSet THEN default ELSE env[key]

\* float(text), in percent; -1 stands for ValueError.
float_of(text) ==
    CASE text = "0.05" -> 5 [] text = "0.5" -> 50 [] text = "1.0" -> 100
      [] OTHER -> -1

NoProbe == [built |-> FALSE, tracepy |-> FALSE, sync |-> FALSE,
            mode |-> "", rate |-> 0]

\* TorchProbe.__init__(tracepy, sync, mode, rate, exprs)
TorchProbe(tracepy, sync, mode_, rate_) ==
    [built |-> TRUE, tracepy |-> tracepy, sync |-> sync,
     mode |-> mode_, rate |-> rate_]

\* The settings optimizer_step_post_hook reads from the environment.
read_settings(env) ==
    [mode    |-> getenv(env, "PROBING_TORCH_PROFILING_MODE", "ordered"),
     rate    |-> float_of(getenv(env, "PROBING_TORCH_SAMPLE_RATE", "0.05")),
     tracepy |-> is_true(getenv(env, "PROBING_TORCH_TRACEPY", "False")),
     sync    |-> is_true(getenv(env, "PROBING_TORCH_SYNC", "False"))]

\* tracer = TorchProbe(exprs=exprs): the settings read are not passed on,
\* the constructor's defaults apply.
construct_tracer(cfg) == TorchProbe(FALSE, FALSE, "ordered", 100)

InitProbe ==
    /\ torch_env = [k \in TorchKeys |-> NotSet]
    /\ probe = NoProbe
    /\ configured = [read |-> FALSE]

\* The host sets or unsets one of the variables.
SetTorchEnv(k, v) ==
    /\ torch_env[k] # v
    /\ torch_env' = [torch_env EXCEPT ![k] = v]
    /\ UNCHANGED <<probe, configured>>
    /\ UNCHANGED othersOfProbe

\* optimizer_step_post_hook at the first step of the optimizer: read the
\* settings (float() raises ValueError on a rate that is no number, and no
\* tracer is built), then construct the tracer.
FirstOptimizerStep ==
    /\ ~probe.built
    /\ LET cfg == read_settings(torch_env)
       IN  IF cfg.rate = -1
           THEN /\ configured' = [read |-> FALSE]
                /\ UNCHANGED probe
           ELSE /\ configured' = [read |-> TRUE, mode |-> cfg.mode, rate |-> cfg.rate,
                                  tracepy |-> cfg.tracepy, sync |-> cfg.sync]
                /\ probe' = construct_tracer(cfg)
    /\ UNCHANGED torch_env
    /\ UNCHANGED othersOfProbe

NextProbe ==
    \/ \E k \in TorchKeys : \E v \in TorchEnvValues(k) \cup {NotSet} : SetTorchEnv(k, v)
    \/ FirstOptimizerStep

(***************************************************************************)
(* Properties of the tracer's construction                                 *)
(***************************************************************************)

\* C21: the tracer installed on the first optimizer step runs with the
\* configured settings: its mode, rate, sync and tracepy equal the values
\* configured for them when it was built.
C21_TracerUsesConfiguredSettings ==
    probe.built =>
        /\ probe.mode = configured.mode
        /\ probe.rate = configured.rate
        /\ probe.sync = configured.sync
        /\ probe.tracepy = configured.tracepy

(***************************************************************************)
(* Part X.  Errors inside hook callbacks                                   *)
(*   (python/probing/profiling/types.py, profiling/torch/__init__.py,      *)
(*    probing/python/src/pycode/torch_profiling.py)                        *)
(***************************************************************************)

\* Bound of the model: hook callbacks run.
MaxHookCalls == 4

\* The callbacks each tracer class registers with torch, and the
\* statements of each callback's body, in order.
TracerHooks(tracer) ==
    IF tracer = "BaseTracer"
    THEN {"pre_forward_hook", "post_forward_hook", "pre_backward_hook",
          "post_backward_hook", "pre_step_hook", "post_step_hook"}
    ELSE {"pre_forward_hook", "pre_backward_hook", "post_hook"}

TracerClasses == {"BaseTracer", "Tracer"}

HookBody(tracer, hook) ==
    CASE tracer = "BaseTracer" /\ hook = "post_step_hook" ->
             <<"log_module_stage", "process_hook", "next_step">>
      [] tracer = "BaseTracer" -> <<"log_module_stage", "process_hook">>
      [] tracer = "Tracer" /\ hook = "post_hook" -> <<"end_span">>
      [] OTHER -> <<"_get_module_params", "TensorDef.create", "begin_span">>

\* Whether the callback is defined under @try_catch: the static hooks of
\* pycode's Tracer are, the hooks of BaseTracer are not.
decorated(tracer, hook) == tracer = "Tracer"

\* The wrapper of try_catch(maxtry) around one call: `raised` tells whether
\* the body raised; the counter is decremented at each failure and the
\* traceback printed while it stays positive.
try_catch(left, raised) ==
    [propagates |-> FALSE,
     left       |-> IF raised THEN left - 1 ELSE left,
     printed    |-> raised /\ left - 1 > 0]

\* An undecorated callback: what the body raises reaches torch's hook
\* dispatch, which does not catch it.
no_wrapper(left, raised) ==
    [propagates |-> raised, left |-> left, printed |-> FALSE]

call_hook(tracer, hook, left, raised) ==
    IF decorated(tracer, hook) THEN try_catch(left, raised)
    ELSE no_wrapper(left, raised)

NoFault == "none"

InitGuard ==
    /\ maxtry_left = [h \in TracerHooks("Tracer") |-> 3]
    /\ hcall = [n |-> 0, tracer |-> "", hook |-> "", fault |-> NoFault,
                printed |-> FALSE]
    /\ host_raised = FALSE

\* torch runs a registered callback; `fault` is the statement of its body
\* that raises, or NoFault.
CallHook(tracer, hook, fault) ==
    /\ hcall.n < MaxHookCalls
    /\ LET left == IF tracer = "Tracer" THEN maxtry_left[hook] ELSE 0
           r    == call_hook(tracer, hook, left, fault # NoFault)
       IN  /\ host_raised' = r.propagates
           /\ maxtry_left' = IF tracer = "Tracer"
                             THEN [maxtry_left EXCEPT ![hook] = r.left]
                             ELSE maxtry_left
           /\ hcall' = [n |-> hcall.n + 1, tracer |-> tracer, hook |-> hook,
                        fault |-> fault, printed |-> r.printed]
    /\ UNCHANGED othersOfGuard

NextGuard ==
    \E tracer \in TracerClasses : \E hook \in TracerHooks(tracer) :
        \E fault \in {HookBody(tracer, hook)[i] :
                         i \in 1..Len(HookBody(tracer, hook))} \cup {NoFault} :
            CallHook(tracer, hook, fault)

(***************************************************************************)
(* Properties of errors inside hook callbacks                              *)
(***************************************************************************)

\* C22: no exception raised inside a tracer hook callback (pre/post
\* forward, pre/post backward, pre/post step), whatever statement of the
\* hook body fails, propagates to the host's forward, backward or
\* optimizer-step call.
C22_HooksNeverRaise ==
    (hcall.tracer = "BaseTracer" /\ hcall.fault # NoFault) => ~host_raised

(***************************************************************************)
(* Part XI.  Span poller (probing/python/src/pycode/torch_profiling.py)    *)
(***************************************************************************)

\* Bounds of the model: the capacity of the poller's queue (1024 in the
\* source), the spans begun, the depth of nested module calls.
MaxQueue == 2
MaxSpans == 4
MaxDepth == 2

NoSpan == 0

\* queue.Queue.put_nowait(span): raises queue.Full when the queue holds
\* maxsize items, appends otherwise.
put_evicting(q, span) ==
    IF Len(q) >= MaxQueue THEN [q |-> Append(Tail(q), span), full |-> TRUE]
    ELSE [q |-> Append(q, span), full |-> FALSE]
put_nowait(q, span) ==
    IF Len(q) >= MaxQueue THEN [q |-> q, full |-> TRUE]
    ELSE [q |-> Append(q, span), full |-> FALSE]

\* SpanPoller.add under @try_catch(3): queue.Full is caught by the wrapper,
\* which returns None.
add(q, left, span) ==
    LET r == put_nowait(q, span)
        w == try_catch(left, r.full)
    IN  [q |-> r.q, left |-> w.left, raised |-> w.propagates, full |-> r.full]

\* queue.Queue.get(): the oldest item leaves the queue.
queue_get_newest(q) == [span |-> q[Len(q)], rest |-> SubSeq(q, 1, Len(q) - 1)]
queue_get(q) == [span |-> Head(q), rest |-> Tail(q)]

InitPoller ==
    /\ spans = <<>>
    /\ next_span = 1
    /\ span_queue = <<>>
    /\ poller_span = NoSpan
    /\ EVENT_COUNT = 0
    /\ SKIP_COUNT = 0
    /\ add_maxtry = 3
    /\ profiled = <<>>
    /\ last_add = [n |-> 0, span |-> NoSpan, before |-> <<>>, after |-> <<>>,
                   full |-> FALSE, raised |-> FALSE]
    /\ open_calls = <<>>
    /\ accepted = <<>>
    /\ last_end = [fired |-> FALSE, call |-> NoSpan, popped |-> NoSpan]

\* Tracer.pre_forward_hook -> begin_span, at the start of a hooked module
\* call: the span is begun (its start event recorded) when the sampling
\* draw says so, and pushed.  When the body raises before spans.append
\* (building the parameters or inputs, span.begin) the try_catch wrapper
\* swallows the exception and nothing is pushed.
BeginSpan(begun, fails) ==
    /\ next_span <= MaxSpans
    /\ Len(open_calls) < MaxDepth
    /\ open_calls' = Append(open_calls, next_span)
    /\ spans' = IF fails THEN spans
                ELSE Append(spans, [id |-> next_span, begun |-> begun])
    /\ next_span' = next_span + 1
    /\ UNCHANGED <<span_queue, poller_span, EVENT_COUNT, SKIP_COUNT, add_maxtry,
                   profiled, last_add, accepted, last_end>>
    /\ UNCHANGED othersOfPoller

\* Tracer.post_hook -> end_span, at the end of the innermost open call: pop
\* the last span; a span that was begun is counted and handed to the
\* poller, another one is skipped.  spans.pop() on an empty list and
\* span.end raise into the try_catch wrapper, which swallows them.
EndSpan(fails) ==
    /\ open_calls # <<>>
    /\ open_calls' = SubSeq(open_calls, 1, Len(open_calls) - 1)
    /\ spans' = IF spans = <<>> THEN spans ELSE SubSeq(spans, 1, Len(spans) - 1)
    /\ last_end' = [fired |-> TRUE, call |-> open_calls[Len(open_calls)],
                    popped |-> IF spans = <<>> THEN NoSpan ELSE spans[Len(spans)].id]
    /\ IF spans = <<>> \/ fails
       THEN UNCHANGED <<EVENT_COUNT, SKIP_COUNT, span_queue, add_maxtry, last_add,
                        accepted>>
       ELSE LET span == spans[Len(spans)]
                r    == add(span_queue, add_maxtry, span.id)
            IN  IF span.begun
                THEN /\ EVENT_COUNT' = EVENT_COUNT + 1
                     /\ span_queue' = r.q
                     /\ add_maxtry' = r.left
                     /\ accepted' = IF r.full THEN accepted
                                    ELSE Append(accepted, span.id)
                     /\ last_add' = [n |-> last_add.n + 1, span |-> span.id,
                                     before |-> span_queue, after |-> r.q,
                                     full |-> r.full, raised |-> r.raised]
                     /\ UNCHANGED SKIP_COUNT
                ELSE /\ SKIP_COUNT' = SKIP_COUNT + 1
                     /\ UNCHANGED <<EVENT_COUNT, span_queue, add_maxtry, last_add,
                                    accepted>>
    /\ UNCHANGED <<next_span, poller_span, profiled>>
    /\ UNCHANGED othersOfPoller

\* SpanPoller.run, one turn of the loop with no span in hand: queue.get().
PollerGet ==
    /\ poller_span = NoSpan
    /\ span_queue # <<>>
    /\ poller_span' = queue_get(span_queue).span
    /\ span_queue' = queue_get(span_queue).rest
    /\ UNCHANGED <<spans, next_span, EVENT_COUNT, SKIP_COUNT, add_maxtry, profiled,
                   last_add, open_calls, accepted, last_end>>
    /\ UNCHANGED othersOfPoller

\* SpanPoller.run with a span in hand: span.poll(); when the device has
\* finished both events the row is appended and the span let go, otherwise
\* the thread sleeps and polls again.
PollerPoll(ready) ==
    /\ poller_span # NoSpan
    /\ IF ready
       THEN /\ profiled' = Append(profiled, poller_span)
            /\ poller_span' = NoSpan
       ELSE UNCHANGED <<profiled, poller_span>>
    /\ UNCHANGED <<spans, next_span, span_queue, EVENT_COUNT, SKIP_COUNT, add_maxtry,
                   last_add, open_calls, accepted, last_end>>
    /\ UNCHANGED othersOfPoller

NextPoller ==
    \/ \E begun \in BOOLEAN, fails \in BOOLEAN : BeginSpan(begun, fails)
    \/ \E fails \in BOOLEAN : EndSpan(fails)
    \/ PollerGet
    \/ \E ready \in BOOLEAN : PollerPoll(ready)

\* The poller thread keeps running and the device finishes the events of
\* the span in its hand.
FairPoller == WF_vars(PollerGet) /\ WF_vars(PollerPoll(TRUE))

(***************************************************************************)
(* Properties of the span poller                                           *)
(***************************************************************************)

\* C23: handing a finished span to the poller never blocks the hook
\* thread.  When the queue already holds its capacity of spans the new
\* span is discarded, the queue contents are unchanged and the hook
\* returns normally; while a span is waiting to be ended the hook can run.
C23_FullQueueDropsSpan ==
    /\ (last_add.n > 0 /\ Len(last_add.before) >= MaxQueue) =>
          /\ last_add.after = last_add.before
          /\ \A i \in 1..Len(last_add.after) : last_add.after[i] # last_add.span
          /\ ~last_add.raised
    /\ spans # <<>> => ENABLED EndSpan(FALSE)

\* A span was handed over while the queue was full.
C23_Witness ==
    /\ last_add.n > 0
    /\ Len(last_add.before) = MaxQueue
    /\ last_add.full
    /\ span_queue = last_add.before
    /\ EVENT_COUNT > Len(span_queue) + Len(profiled)

\* s is the beginning of t.
IsPrefix(s, t) == Len(s) <= Len(t) /\ SubSeq(t, 1, Len(s)) = s

\* C38: every span accepted into the span queue is eventually appended to
\* the torch_profiling table exactly once, and spans are appended in the
\* order they were enqueued, provided the poller thread keeps running and
\* each span's device events eventually complete.
C38_AcceptedSpansProfiled ==
    /\ [](IsPrefix(profiled, accepted))
    /\ \A k \in 1..MaxSpans : (Len(accepted) >= k) ~> (Len(profiled) >= k)

\* Three spans were accepted, the inner one of a nested call first, and all
\* three are in the table, in the order they were enqueued.
C38_Witness ==
    /\ Len(accepted) = 3
    /\ accepted[1] > accepted[2]
    /\ profiled = accepted
    /\ span_queue = <<>> /\ poller_span = NoSpan

\* C39: the span stack follows the nesting of hooked module calls: at
\* every post hook the span popped is the one the pre hook of the same
\* call pushed, and the stack depth equals the number of open hooked
\* calls, also when the body of a pre or post hook fails and the failure
\* is swallowed.
C39_StackFollowsNesting ==
    /\ Len(spans) = Len(open_calls)
    /\ last_end.fired => last_end.popped = last_end.call

(***************************************************************************)
(* Part XII.  Import hook (python/probing/hooks/import_hook.py)            *)
(***************************************************************************)

\* Bound of the model: register_module_callback calls made.
MaxRegs == 3

\* Importable modules and the callbacks user code registers; cb_raises
\* raises an Exception when called.
HookModules == {"torch", "mod_a", "mod_b"}
Callbacks == {"cb_ok", "cb_raises"}
NoCallback == "<none>"

raises(cb) == cb = "cb_raises"

\* sys.meta_path as the interpreter has it without the hook.
DefaultMetaPath == <<"BuiltinImporter", "FrozenImporter", "PathFinder">>

HasFinder(path) == \E i \in 1..Len(path) : path[i] = "ProbingFinder"

RemoveFinder(path) == SelectSeq(path, LAMBDA f : f # "ProbingFinder")

\* ProbingFinder.find_spec(fullname) for a registered name: the module is
\* looked up with the finder taken out, and sys.meta_path is then set to
\* list(self.original_meta_path), the path as it was before install()
\* inserted the finder.
restore_meta_path(path, original) == original

\* Mark the name as triggered, then run the callback; an Exception it
\* raises is caught and printed.
mark_after_callback(trig, name, cb) ==
    [triggered |-> IF raises(cb) THEN trig ELSE trig \cup {name},
     ran |-> TRUE, propagated |-> FALSE]
trigger(trig, name, cb) ==
    [triggered |-> trig \cup {name}, ran |-> TRUE, propagated |-> FALSE]

NotRun(trig) == [triggered |-> trig, ran |-> FALSE, propagated |-> FALSE]

InitImportHook ==
    /\ meta_path = <<"ProbingFinder">> \o DefaultMetaPath
    /\ original_meta_path = DefaultMetaPath
    /\ register = [n \in HookModules |-> IF n = "torch" THEN "torch_init" ELSE NoCallback]
    /\ triggered = {}
    /\ modules_loaded = {}
    /\ import_log = [n \in HookModules |-> [done |-> FALSE, registered |-> FALSE,
                                            ran |-> FALSE]]
    /\ last_reg = [n |-> 0, name |-> "", cb |-> NoCallback, imported |-> FALSE,
                   was_triggered |-> FALSE, ran |-> FALSE, propagated |-> FALSE]

\* install(): insert a new ProbingFinder unless one is on sys.meta_path.
Install ==
    /\ IF HasFinder(meta_path)
       THEN UNCHANGED <<meta_path, original_meta_path>>
       ELSE /\ original_meta_path' = meta_path
            /\ meta_path' = <<"ProbingFinder">> \o meta_path
    /\ UNCHANGED <<register, triggered, modules_loaded, import_log, last_reg>>
    /\ UNCHANGED othersOfImportHook

\* register_module_callback(module_name, callback)
RegisterModuleCallback(name, cb) ==
    /\ last_reg.n < MaxRegs
    /\ register' = [register EXCEPT ![name] = cb]
    /\ LET r == IF name \in modules_loaded /\ name \notin triggered
                THEN trigger(triggered, name, cb)
                ELSE NotRun(triggered)
       IN  /\ triggered' = r.triggered
           /\ last_reg' = [n |-> last_reg.n + 1, name |-> name, cb |-> cb,
                           imported |-> name \in modules_loaded,
                           was_triggered |-> name \in triggered,
                           ran |-> r.ran, propagated |-> r.propagated]
    /\ UNCHANGED <<meta_path, original_meta_path, modules_loaded, import_log>>
    /\ UNCHANGED othersOfImportHook

\* The host imports a module that is not in sys.modules.  With the finder
\* on sys.meta_path and the name in `register`, find_spec wraps the loader
\* and ProbingLoader.exec_module runs the callback after the module body;
\* otherwise the import goes through untouched.
ImportHookModule(name) ==
    /\ name \notin modules_loaded
    /\ modules_loaded' = modules_loaded \cup {name}
    /\ LET intercepted == HasFinder(meta_path) /\ register[name] # NoCallback
           r == IF intercepted /\ name \notin triggered
                THEN trigger(triggered, name, register[name])
                ELSE NotRun(triggered)
       IN  /\ meta_path' = IF intercepted
                           THEN restore_meta_path(meta_path, original_meta_path)
                           ELSE meta_path
           /\ triggered' = r.triggered
           /\ import_log' = [import_log EXCEPT ![name] =
                  [done |-> TRUE,
                   registered |-> register[name] # NoCallback /\ name \notin triggered,
                   ran |-> r.ran]]
    /\ UNCHANGED <<original_meta_path, register, last_reg>>
    /\ UNCHANGED othersOfImportHook

NextImportHook ==
    \/ Install
    \/ \E name \in HookModules, cb \in Callbacks : RegisterModuleCallback(name, cb)
    \/ \E name \in HookModules : ImportHookModule(name)

(***************************************************************************)
(* Properties of the import hook                                           *)
(***************************************************************************)

\* C24: for every module name with a registered callback that is first
\* imported after the registration, the callback runs when that import
\* completes and the name is recorded in `triggered`, for any number of
\* registered modules and any order of imports.
C24_CallbackRunsAtImport ==
    \A n \in HookModules :
        (import_log[n].done /\ import_log[n].registered) =>
            (import_log[n].ran /\ n \in triggered)

MaxOffset == 3

\* The hooks install_hooks registers: forward and backward hooks on
\* modules, step hooks on the optimizer.
HookAlphabet ==
    { [mod |-> "model", stage |-> s] :
          s \in {"pre forward", "post forward", "pre backward", "post backward"} }
    \cup { [mod |-> "model.layer", stage |-> s] : s \in {"pre forward", "post forward"} }
    \cup { [mod |-> "opt1", stage |-> s] : s \in {"pre step", "post step"} }

\* The sampling expressions set while hooks run in any order.
HookExprs == {Wordered, Wrandom \o Colon \o R05}

\* force=... as the hooks of profiling/types.py pass it to log_module_stage.
force(stage) == FALSE

\* TorchProbe.log_module_stage(stage, mod, force): whether a row is made.
log_module_stage(st, m, stage, offset, u) ==
    force(stage) \/ should_sample(st, m, offset, u)

InitHook ==
    /\ last_hook = [fired |-> FALSE]
    /\ row_steps = {}
    /\ tstep = 0

\* One hook of the tracer: log_module_stage, then process_hook; post_step
\* goes on to reset the offset, call next_step(), and (TorchProbe) finalize
\* discovery at the first step, or increment curr_step and call next_mod().
ProbeHook(h, u, v) ==
    /\ h.stage # "post step" => MODULE_CALL_OFFSET < MaxOffset
    /\ h.stage = "post step" => tstep < MaxSteps
    /\ LET post == h.stage = "post step"
           s    == log_module_stage(SamplerState, h.mod, h.stage, MODULE_CALL_OFFSET, u)
           st1  == IF finalized \/ force(h.stage) THEN SamplerState
                   ELSE register_mod(SamplerState, h.mod)
           st2  == IF ~post THEN st1
                   ELSE IF finalized THEN next_mod(st1, v)
                   ELSE finalize_discovery(st1)
       IN  /\ CommitSampler(st2)
           /\ IF post
              THEN /\ MODULE_CALL_OFFSET' = 0
                   /\ CURRENT_MODULE' = h.mod
                   /\ CURRENT_STAGE' = h.stage
              ELSE process_hook(h.mod, h.stage)
           /\ curr_step' = IF post /\ finalized THEN curr_step + 1 ELSE curr_step
           /\ OPTIM_ITER' = IF post THEN OPTIM_ITER + 1 ELSE OPTIM_ITER
           /\ tstep' = IF post THEN tstep + 1 ELSE tstep
           /\ row_steps' = IF s THEN row_steps \cup {<<tstep, curr_step>>} ELSE row_steps
           /\ last_hook' =
                 [fired |-> TRUE, mod |-> h.mod, stage |-> h.stage,
                  offset_before |-> MODULE_CALL_OFFSET,
                  same_pair |-> CURRENT_MODULE = h.mod /\ CURRENT_STAGE = h.stage,
                  offset_after |-> MODULE_CALL_OFFSET',
                  sampled |-> s, discovery |-> ~finalized, mode |-> mode,
                  victim |-> curr_mod, step_before |-> curr_step,
                  step_after |-> curr_step',
                  registered |-> \E i \in 1..Len(st2.mod_names) : st2.mod_names[i] = h.mod]
    /\ UNCHANGED <<hpc, sampled_now, visits, full_rate, last_set>>
    /\ UNCHANGED <<hooks, HOOK_CACHE, torch_hooks, global_post_hooks, next_tracer,
                   PB_COLL_TRACE, coll_traced, calls, seen, stepped>>
    /\ UNCHANGED <<storeVars, regVars, siblingsOfHook>>

NextHooks ==
    \/ \E h \in HookAlphabet : \E u \in Bernoulli(rate), v \in Bernoulli(rate) :
           ProbeHook(h, u, v)
    \/ \E expr \in HookExprs : SetSamplingMode(expr)

(***************************************************************************)
(* Properties of the hooks of the torch probe                              *)
(***************************************************************************)

\* C26 as stated: in ordered mode, during a steady step, a hook is sampled
\* only if its module is that step's round-robin victim.
C26_OnlyVictimSampled ==
    (last_hook.fired /\ ~last_hook.discovery /\ last_hook.mode = "ordered"
        /\ last_hook.sampled) => last_hook.mod = last_hook.victim

\* C26 as amended: ... only if its module is that step's victim or the
\* hook is observed at offset 0, as the first hook of a step is.
C26_OnlyVictimOrFirstSampled ==
    (last_hook.fired /\ ~last_hook.discovery /\ last_hook.mode = "ordered"
        /\ last_hook.sampled) =>
        (last_hook.mod = last_hook.victim \/ last_hook.offset_before = 0)

\* In a steady step in ordered mode the victim's hook was sampled past
\* offset 0, with three modules registered.
C26_Witness ==
    /\ last_hook.fired /\ ~last_hook.discovery /\ last_hook.mode = "ordered"
    /\ last_hook.offset_before > 1
    /\ last_hook.mod = last_hook.victim
    /\ last_hook.sampled
    /\ Len(mod_queue) = 3

\* C27: during the discovery step every hook registers its module, no
\* forward or backward hook emits a row, and the pre step and post step
\* hooks do emit their rows.
C27_DiscoveryRows ==
    (last_hook.fired /\ last_hook.discovery) =>
        /\ last_hook.registered
        /\ last_hook.stage \in {"pre forward", "post forward", "pre backward",
                                "post backward"} => ~last_hook.sampled
        /\ last_hook.stage \in {"pre step", "post step"} => last_hook.sampled

NoTracer == [built |-> FALSE]

\* MemTracer.__init__(strategy, sample_rate), SamplingStrategy.__init__
MemTracer(strategy, sample_rate) ==
    [built |-> TRUE, strategy |-> strategy, sample_rate |-> sample_rate,
     module_names |-> <<>>, module_ids |-> <<>>, curr_module_idx |-> 0,
     tracking_module |-> NoMod, discovery_done |-> FALSE, current_step |-> 0]

\* SamplingStrategy.register_new_module(module)
register_new_module(t, m) ==
    IF t.discovery_done \/ \E i \in 1..Len(t.module_names) : t.module_names[i] = m
    THEN t
    ELSE [t EXCEPT !.module_names = Append(@, m)]

\* SamplingStrategy.complete_discovery()
complete_discovery(t) ==
    LET ids == sorted_by_name_len(t.module_names)
    IN  [t EXCEPT !.discovery_done = TRUE, !.module_ids = ids,
                  !.tracking_module = IF ids # <<>> THEN ids[1] ELSE @]

\* SamplingStrategy.should_log_module(module); u is the outcome of
\* random.random() < sample_rate.
should_log_module(t, m, offset, u) ==
    IF ~t.discovery_done THEN FALSE
    ELSE IF offset = 0 THEN TRUE
    ELSE IF t.strategy = "ordered" THEN m = t.tracking_module
    ELSE u

\* SamplingStrategy.select_next_module()
select_next_module(t) ==
    IF t.module_ids # <<>>
    THEN LET idx == (t.curr_module_idx + 1) % Len(t.module_ids)
         IN  [t EXCEPT !.curr_module_idx = idx, !.tracking_module = t.module_ids[idx + 1]]
    ELSE t

\* force=... as the hooks of torch/tracer/types.py pass it.
mem_force(stage) == stage \in {"pre step", "post step"}

\* BaseTracer.process_hook(module, stage) of torch/tracer/types.py
mem_process_hook(g, m, stage) ==
    IF g.CURRENT_MODULE # m \/ g.CURRENT_STAGE # stage
    THEN [g EXCEPT !.MODULE_CALL_OFFSET = @ + 1, !.CURRENT_MODULE = m,
                   !.CURRENT_STAGE = stage]
    ELSE g

\* The end of BaseTracer.post_step_hook: `MODULE_CALL_OFFSET = 0` in a
\* function with no `global` statement binds a local name and leaves the
\* module's counter alone; next_step() follows.
end_of_post_step(g) == [g EXCEPT !.OPTIM_ITER = @ + 1]

InitMem ==
    /\ memtracer = NoTracer
    /\ tracer_globals = [MODULE_CALL_OFFSET |-> 0, CURRENT_MODULE |-> NoMod,
                         CURRENT_STAGE |-> NoMod, OPTIM_ITER |-> 1]
    /\ mem_last = [fired |-> FALSE]
    /\ mem_rows = {}
    /\ mem_tstep = 0

\* The host builds the tracer.
ConstructMemTracer(strategy, sample_rate) ==
    /\ ~memtracer.built
    /\ memtracer' = MemTracer(strategy, sample_rate)
    /\ UNCHANGED <<tracer_globals, mem_last, mem_rows, mem_tstep>>
    /\ UNCHANGED othersOfMem

\* One hook of the memory tracer.  MemTracer.post_step_hook first completes
\* discovery, or increments current_step and selects the next module; every
\* hook then runs process_hook and log_module_stage, the step hooks forced.
MemHook(h, u) ==
    /\ memtracer.built
    /\ tracer_globals.MODULE_CALL_OFFSET < MaxOffset
    /\ h.stage = "post step" => mem_tstep < MaxSteps
    /\ LET post == h.stage = "post step"
           t1   == IF ~post THEN memtracer
                   ELSE IF ~memtracer.discovery_done THEN complete_discovery(memtracer)
                   ELSE select_next_module([memtracer EXCEPT !.current_step = @ + 1])
           g1   == mem_process_hook(tracer_globals, h.mod, h.stage)
           s    == mem_force(h.stage)
                   \/ should_log_module(t1, h.mod, g1.MODULE_CALL_OFFSET, u)
           t2   == IF mem_force(h.stage) THEN t1 ELSE register_new_module(t1, h.mod)
       IN  /\ memtracer' = t2
           /\ tracer_globals' = IF post THEN end_of_post_step(g1) ELSE g1
           /\ mem_rows' = IF s THEN mem_rows \cup {<<mem_tstep, t1.current_step>>}
                          ELSE mem_rows
           /\ mem_tstep' = IF post THEN mem_tstep + 1 ELSE mem_tstep
           /\ mem_last' = [fired |-> TRUE, mod |-> h.mod, stage |-> h.stage,
                           sampled |-> s, discovery |-> ~memtracer.discovery_done,
                           step_before |-> memtracer.current_step,
                           step_after |-> t2.current_step,
                           offset_before |-> tracer_globals.MODULE_CALL_OFFSET]
    /\ UNCHANGED othersOfMem

NextMem ==
    \/ \E strategy \in {"ordered", "random"} : ConstructMemTracer(strategy, 5)
    \/ \E h \in HookAlphabet : \E u \in BOOLEAN : MemHook(h, u)

(***************************************************************************)
(* Properties of the tracers' counters                                     *)
(***************************************************************************)

\* C29: immediately after every post_step hook returns, the tracer's
\* offset counter is 0, in every tracer of the source.
C29_OffsetZeroAfterPostStep ==
    (mem_last.fired /\ mem_last.stage = "post step") =>
        tracer_globals.MODULE_CALL_OFFSET = 0

\* C30: the tracer's step counter increases by exactly one at every
\* post_step, including the post_step that ends discovery, and never
\* changes at any other hook; hence rows of two different training steps
\* never carry the same step value.
C30_StepCounterPerPostStep ==
    /\ mem_last.fired =>
          mem_last.step_after =
              IF mem_last.stage = "post step" THEN mem_last.step_before + 1
              ELSE mem_last.step_before
    /\ \A r1, r2 \in mem_rows : r1[2] = r2[2] => r1[1] = r2[1]

(***************************************************************************)
(* Part XV.  Timer and pending list of the torch probe                     *)
(*   (python/probing/profiling/torch_probe.py, profiling/types.py)         *)
(*   The tracer of Part VIII on a device with timing events (has_cuda):    *)
(*   what its hooks leave in Timer.events, in TorchProbe.pending and, at   *)
(*   post_step, in the trace table.  Hooks fire in any order the host's    *)
(*   calls produce: a post hook closes the execution its pre hook opened,  *)
(*   and the optimizer steps between two forward passes.                   *)
(***************************************************************************)

\* Bounds of the model: hooks run between two post_step hooks, post_step
\* hooks run.
MaxPending    == 4
MaxTimedSteps == 3

\* The hooks registered on one module and on the optimizer.
TimedHooks ==
    { [mod |-> "model", stage |-> s] : s \in {"pre forward", "post forward"} }
    \cup { [mod |-> "opt1", stage |-> s] : s \in {"pre step", "post step"} }

\* STAGEMAP[stage]
STAGEMAP(stage) ==
    CASE stage \in {"pre forward", "post forward"}   -> "forward"
      [] stage \in {"pre backward", "post backward"} -> "backward"
      [] stage \in {"pre step", "post step"}         -> "step"

\* stage.startswith("pre")
startswith_pre(stage) == stage \in {"pre forward", "pre backward", "pre step"}

\* key = (id(mod), STAGEMAP[stage])
TimerKey(h) == <<h.mod, STAGEMAP(h.stage)>>

TimerKeys == { TimerKey(h) : h \in TimedHooks }

\* No device event: `key in self.events` is false, DelayedRecord.events is None.
NoEvent == [exec |-> 0, step |-> 0]

\* Timer.begin_timing(mod, stage): self.events[key] = _cuda_event().  The
\* event is identified by the execution and the step that recorded it.
begin_timing(ev, h, exec, step) == [ev EXCEPT ![TimerKey(h)] = [exec |-> exec, step |-> step]]

\* Timer.end_timing(mod, stage): the start event popped, or None.
end_timing_start(ev, h) == ev[TimerKey(h)]

end_timing(ev, h) == [ev EXCEPT ![TimerKey(h)] = NoEvent]

\* DelayedRecord.save() for every record of the list, in order; `fails` are
\* the positions whose save raises (the error is printed, the row is lost).
RECURSIVE save_all(_, _, _)
save_all(rows, fails, i) ==
    IF i > Len(rows) THEN <<>>
    ELSE (IF i \in fails THEN <<>> ELSE <<rows[i]>>) \o save_all(rows, fails, i + 1)

\* self.pending = [x for x in self.pending if x.save()]: save() returns None.
drain_keep_failed(rows, fails) == save_all(rows, (1..Len(rows)) \ fails, 1)
drain(rows, fails) == <<>>

InitTimer ==
    /\ timer_events = [k \in TimerKeys |-> NoEvent]
    /\ pending = <<>>
    /\ trace = <<>>
    /\ execs = [k \in TimerKeys |-> [id |-> 0, open |-> FALSE]]
    /\ made = 0
    /\ psteps = 0
    /\ last_timed = [fired |-> FALSE]

\* One hook of the tracer: log_module_stage (should_sample, the row, the
\* device events, the pending list), then process_hook; post_step goes on
\* to reset the offset, call next_step(), finalize discovery or increment
\* curr_step and call next_mod(), and drain the pending list.
TimedHook(h, u, v, fails) ==
    /\ ~startswith_pre(h.stage) => execs[TimerKey(h)].open
    /\ startswith_pre(h.stage) => \A k \in TimerKeys : ~execs[k].open
    /\ h.stage # "post step" => MODULE_CALL_OFFSET < MaxPending
    /\ h.stage = "post step" => psteps < MaxTimedSteps
    /\ LET post == h.stage = "post step"
           pre  == startswith_pre(h.stage)
           key  == TimerKey(h)
           exec == IF pre THEN execs[key].id + 1 ELSE execs[key].id
           s    == log_module_stage(SamplerState, h.mod, h.stage, MODULE_CALL_OFFSET, u)
           st1  == IF finalized \/ force(h.stage) THEN SamplerState
                   ELSE register_mod(SamplerState, h.mod)
           st2  == IF ~post THEN st1
                   ELSE IF finalized THEN next_mod(st1, v)
                   ELSE finalize_discovery(st1)
           start == IF pre THEN NoEvent ELSE end_timing_start(timer_events, h)
           row  == [id |-> made + 1, step |-> curr_step, made_in |-> psteps]
           pend == IF s THEN Append(pending, row) ELSE pending
           bad  == fails \cap (1..Len(pend))
       IN  /\ CommitSampler(st2)
           /\ IF post
              THEN /\ MODULE_CALL_OFFSET' = 0
                   /\ CURRENT_MODULE' = h.mod
                   /\ CURRENT_STAGE' = h.stage
              ELSE process_hook(h.mod, h.stage)
           /\ curr_step' = IF post /\ finalized THEN curr_step + 1 ELSE curr_step
           /\ OPTIM_ITER' = IF post THEN OPTIM_ITER + 1 ELSE OPTIM_ITER
           /\ timer_events' = IF ~s THEN timer_events
                        ELSE IF pre THEN begin_timing(timer_events, h, exec, psteps)
                        ELSE end_timing(timer_events, h)
           /\ execs' = [execs EXCEPT ![key] = [id |-> exec, open |-> pre]]
           /\ made' = IF s THEN made + 1 ELSE made
           /\ pending' = IF post THEN drain(pend, bad) ELSE pend
           /\ trace' = IF post THEN trace \o save_all(pend, bad, 1) ELSE trace
           /\ psteps' = IF post THEN psteps + 1 ELSE psteps
           /\ last_timed' = [fired |-> TRUE, stage |-> h.stage, sampled |-> s,
                             mode |-> mode, exec |-> exec, at |-> psteps,
                             start |-> IF s THEN start ELSE NoEvent,
                             before |-> pend,
                             lost |-> { pend[i].id : i \in bad }]
    /\ UNCHANGED <<hpc, sampled_now, visits, full_rate, last_set>>
    /\ UNCHANGED <<hooks, HOOK_CACHE, torch_hooks, global_post_hooks, next_tracer,
                   PB_COLL_TRACE, coll_traced, calls, seen, stepped>>
    /\ UNCHANGED <<storeVars, regVars, siblingsOfTimer>>

\* The records whose save may raise: none, or one of those a post_step finds.
FailSets(h) ==
    IF h.stage = "post step"
    THEN {{}} \cup { {i} : i \in 1..(Len(pending) + 1) }
    ELSE {{}}

NextTimer ==
    \/ \E h \in TimedHooks : \E u \in Bernoulli(rate), v \in Bernoulli(rate) :
           \E fails \in FailSets(h) : TimedHook(h, u, v, fails)
    \/ \E expr \in HookExprs : SetSamplingMode(expr)

\* The same hooks at the default rate 1.0, in either mode.
PendingExprs == {Wrandom \o Colon \o R10}

NextPending ==
    \/ \E h \in TimedHooks : \E u \in Bernoulli(rate), v \in Bernoulli(rate) :
           \E fails \in FailSets(h) : TimedHook(h, u, v, fails)
    \/ \E expr \in PendingExprs : SetSamplingMode(expr)

(***************************************************************************)
(* Properties of the timer and the pending list                            *)
(***************************************************************************)

\* The rows the tracer has made and not lost, each with its identity, the
\* step it carries and the number of post_step hooks run before its hook.
RowsKept == { pending[i] : i \in 1..Len(pending) } \cup { trace[i] : i \in 1..Len(trace) }

\* C31: whenever a post_X row receives a device-event pair, the start
\* event of the pair was recorded by the pre_X hook that opened the
\* execution this post_X closes (same module, same stage group, same
\* step); a start event left by an earlier execution is never paired.
C31_PairedWithOwnStart ==
    (last_timed.fired /\ last_timed.sampled /\ last_timed.start # NoEvent) =>
        (last_timed.start.exec = last_timed.exec /\ last_timed.start.step = last_timed.at)

\* curr_step as it is while k post_step hooks have completed: the first
\* post_step ends discovery, every later one increments the step.
StepAt(k) == IF k = 0 THEN 0 ELSE k - 1

\* The rows are in the table once each, in the order their hooks fired,
\* and every row carries the step current when its hook fired.
InOrderOnceWithStep ==
    /\ \A i, j \in 1..Len(trace) : i < j => trace[i].id < trace[j].id
    /\ \A r \in RowsKept : r.step = StepAt(r.made_in)
    /\ \A i \in 1..Len(trace) : trace[i].made_in < psteps
    /\ \A i \in 1..Len(pending) : pending[i].made_in = psteps

\* The last n rows of the table.
LastRows(n) == IF n > Len(trace) THEN <<"fewer">> ELSE SubSeq(trace, Len(trace) - n + 1, Len(trace))

Saved(r) == r.id \notin last_timed.lost

\* C33 as stated: every row placed on the pending list during a step is
\* appended to the trace table exactly once, at the next post_step, in the
\* order the hooks fired, with the step value current when its hook fired;
\* after every post_step the pending list is empty.
C33_PendingSavedAtPostStep ==
    /\ InOrderOnceWithStep
    /\ (last_timed.fired /\ last_timed.stage = "post step") =>
          /\ pending = <<>>
          /\ LastRows(Len(last_timed.before)) = last_timed.before

\* C33 as amended: the same for the rows whose save does not raise; a row
\* whose save raises is dropped and never appended.
C33_PendingSavedUnlessSaveRaises ==
    /\ InOrderOnceWithStep
    /\ (last_timed.fired /\ last_timed.stage = "post step") =>
          /\ pending = <<>>
          /\ LastRows(Len(SelectSeq(last_timed.before, Saved)))
                = SelectSeq(last_timed.before, Saved)
          /\ \A i \in 1..Len(trace) : trace[i].id \notin last_timed.lost

\* The third post_step found three rows pending, the last one its own,
\* lost the second and appended the other two, in order, after the two
\* rows of the step before.
C33_Witness ==
    /\ last_timed.fired /\ last_timed.stage = "post step"
    /\ psteps = 3
    /\ Len(last_timed.before) = 3
    /\ last_timed.lost = {last_timed.before[2].id}
    /\ Len(trace) = 4
    /\ trace[1].made_in = 1 /\ trace[2].made_in = 1
    /\ trace[3] = last_timed.before[1]
    /\ trace[4] = last_timed.before[3]
    /\ trace[4].step = 1
    /\ last_timed.sampled
    /\ pending = <<>>

\* The bound of C35: every hook of every hooked module once, but for
\* post_step, whose row leaves the list in the hook that makes it.
PendingBound == Cardinality(TimedHooks) - 1

\* C35: the pending list is bounded by a bound that depends only on the
\* set of hooked modules, also when forward hooks keep firing with no
\* post_step in between.
C35_PendingBounded == Len(pending) <= PendingBound

(***************************************************************************)
(* Part XVI.  Two tracers in one process                                   *)
(*   (python/probing/ext/torch.py, profiling/types.py, torch/step.py)      *)
(*   optimizer_step_post_hook builds one TorchProbe per optimizer: the     *)
(*   first hooks the model and its optimizer, the second its optimizer.    *)
(*   The offset, the current pair and OPTIM_ITER are module globals.       *)
(***************************************************************************)

Tracers == {"t1", "t2"}

\* The hooks install_hooks registers for each tracer.
InstHooks(t) ==
    IF t = "t1"
    THEN { [mod |-> "model", stage |-> s] : s \in {"pre forward", "post forward"} }
         \cup { [mod |-> "opt1", stage |-> s] : s \in {"pre step", "post step"} }
    ELSE { [mod |-> "opt2", stage |-> s] : s \in {"pre step", "post step"} }

\* What a tracer observes: offset(), the last (module, stage) pair its
\* process_hook compares with, its own curr_step and step().
Seen(t, insts) ==
    [offset |-> MODULE_CALL_OFFSET, pair |-> <<CURRENT_MODULE, CURRENT_STAGE>>,
     curr_step |-> insts[t].curr_step, step |-> OPTIM_ITER]

SeenAfter(t, insts) ==
    [offset |-> MODULE_CALL_OFFSET', pair |-> <<CURRENT_MODULE', CURRENT_STAGE'>>,
     curr_step |-> insts[t].curr_step, step |-> OPTIM_ITER']

InitInst ==
    /\ tracers = [t \in Tracers |-> [curr_step |-> 0, finalized |-> FALSE]]
    /\ last_inst = [fired |-> FALSE]

\* One hook of tracer t: process_hook; post_step goes on to reset the
\* offset and call next_step(), and the tracer finalizes its discovery or
\* increments its curr_step.
InstanceHook(t, h) ==
    /\ h.stage # "post step" => MODULE_CALL_OFFSET < MaxOffset
    /\ h.stage = "post step" => OPTIM_ITER <= MaxSteps
    /\ LET post  == h.stage = "post step"
           insts == IF ~post THEN tracers
                    ELSE IF tracers[t].finalized
                    THEN [tracers EXCEPT ![t].curr_step = @ + 1]
                    ELSE [tracers EXCEPT ![t].finalized = TRUE]
       IN  /\ IF post
              THEN /\ MODULE_CALL_OFFSET' = 0
                   /\ CURRENT_MODULE' = h.mod
                   /\ CURRENT_STAGE' = h.stage
              ELSE process_hook(h.mod, h.stage)
           /\ OPTIM_ITER' = IF post THEN OPTIM_ITER + 1 ELSE OPTIM_ITER
           /\ tracers' = insts
           /\ last_inst' =
                 [fired |-> TRUE, tracer |-> t, stage |-> h.stage,
                  before |-> [o \in Tracers |-> Seen(o, tracers)],
                  after |-> [o \in Tracers |-> SeenAfter(o, insts)]]
    /\ UNCHANGED <<mode, rate, mod_names, mod_queue, curr_idx, curr_mod, finalized,
                   sampled_step, curr_step, hpc, sampled_now, visits, full_rate,
                   last_set>>
    /\ UNCHANGED <<hooks, HOOK_CACHE, torch_hooks, global_post_hooks, next_tracer,
                   PB_COLL_TRACE, coll_traced, calls, seen, stepped>>
    /\ UNCHANGED <<storeVars, regVars, siblingsOfInst>>

NextInst == \E t \in Tracers : \E h \in InstHooks(t) : InstanceHook(t, h)

(***************************************************************************)
(* Properties of the tracers of one process                                *)
(***************************************************************************)

\* C32: tracer instances do not interact: a hook invocation or post_step
\* on one tracer leaves the offset counter, the last-observed (module,
\* stage) pair and the step counter seen by every other tracer unchanged.
C32_TracersDoNotInteract ==
    last_inst.fired =>
        \A o \in Tracers \ {last_inst.tracer} :
            last_inst.after[o] = last_inst.before[o]

(***************************************************************************)
(* Part XVII.  RDMA data collector (python/probing/rdma/rdma_collector.py) *)
(*   The collector object, the callers of refresh_config_from_env and      *)
(*   shutdown (serialised by self._lock) and the collector threads.        *)
(***************************************************************************)

\* Bound of the model: refresh_config_from_env and shutdown calls made.
MaxRdmaCalls == 4

\* Values of RDMA_COLLECTOR_ENABLED.
RdmaEnvValues == {NotSet, "true", "1", "false", "on"}

\* The threads the object may create, one per call at most.
RdmaThreads == 1..MaxRdmaCalls

\* self._thread = None
NoThread == 0

\* _load_config_from_env: config["enabled"], from the variable or, when it
\* is not set, from the configuration so far.
load_enabled(env, old) == IF env = NotSet THEN old ELSE env \in {"true", "1", "yes"}

\* self._thread is not None and self._thread.is_alive()
is_alive(t, pcs) == t # NoThread /\ pcs[t] \in {"loop", "collect", "wait"}

\* _start_collector(): a thread is created unless the last one is alive.
start_collector(st) ==
    IF is_alive(st.thread, st.pcs) THEN st
    ELSE [st EXCEPT !.stop = FALSE, !.thread = st.created + 1,
                    !.created = st.created + 1, !.pcs[st.created + 1] = "loop"]

\* _stop_collector(): set the event and join for at most 2 s.  A thread in
\* its wait or at the loop test sees the event and ends; a thread inside
\* the collector function ends in time only if the function returns.
stop_collector(st, timely) ==
    IF ~is_alive(st.thread, st.pcs) THEN st
    ELSE [st EXCEPT !.stop = TRUE,
                    !.pcs[st.thread] = IF @ = "collect" /\ ~timely THEN @ ELSE "dead"]

RdmaState ==
    [enabled |-> rdma_enabled, stop |-> stop_event, thread |-> rdma_thread,
     created |-> rdma_created, pcs |-> thread_pc]

CommitRdma(st) ==
    /\ rdma_enabled' = st.enabled
    /\ stop_event' = st.stop
    /\ rdma_thread' = st.thread
    /\ rdma_created' = st.created
    /\ thread_pc' = st.pcs

InitRdma ==
    /\ rdma_env = NotSet
    /\ rdma_enabled = FALSE
    /\ stop_event = FALSE
    /\ rdma_thread = NoThread
    /\ rdma_created = 0
    /\ thread_pc = [t \in RdmaThreads |-> "none"]
    /\ rdma_calls = 0

\* The environment variable is changed.
SetRdmaEnv(v) ==
    /\ rdma_env # v
    /\ rdma_calls < MaxRdmaCalls
    /\ rdma_env' = v
    /\ UNCHANGED <<rdma_enabled, stop_event, rdma_thread, rdma_created, thread_pc,
                   rdma_calls>>
    /\ UNCHANGED othersOfRdma

\* refresh_config_from_env(), under the lock.
RefreshConfig(timely) ==
    /\ rdma_calls < MaxRdmaCalls
    /\ rdma_calls' = rdma_calls + 1
    /\ LET new == load_enabled(rdma_env, rdma_enabled)
           st  == [RdmaState EXCEPT !.enabled = new]
       IN  CommitRdma(IF new /\ ~rdma_enabled THEN start_collector(st)
                      ELSE IF ~new /\ rdma_enabled THEN stop_collector(st, timely)
                      ELSE st)
    /\ UNCHANGED rdma_env
    /\ UNCHANGED othersOfRdma

\* shutdown(), under the lock.
Shutdown(timely) ==
    /\ rdma_calls < MaxRdmaCalls
    /\ rdma_calls' = rdma_calls + 1
    /\ CommitRdma(stop_collector([RdmaState EXCEPT !.enabled = FALSE], timely))
    /\ UNCHANGED rdma_env
    /\ UNCHANGED othersOfRdma

\* _collector_loop, one step of thread t: the loop test, the collector
\* function, the wait on the stop event (which ends at once when set, after
\* the interval otherwise).
CollectorStep(t) ==
    /\ thread_pc[t] \in {"loop", "collect", "wait"}
    /\ thread_pc' = [thread_pc EXCEPT ![t] =
                        CASE @ = "loop" -> IF stop_event THEN "dead" ELSE "collect"
                          [] @ = "collect" -> "wait"
                          [] @ = "wait" -> "loop"]
    /\ UNCHANGED <<rdma_env, rdma_enabled, stop_event, rdma_thread, rdma_created,
                   rdma_calls>>
    /\ UNCHANGED othersOfRdma

NextRdma ==
    \/ \E v \in RdmaEnvValues : SetRdmaEnv(v)
    \/ \E timely \in BOOLEAN : RefreshConfig(timely)
    \/ \E timely \in BOOLEAN : Shutdown(timely)
    \/ \E t \in RdmaThreads : CollectorStep(t)

(***************************************************************************)
(* Properties of the RDMA data collector                                   *)
(***************************************************************************)

AliveThreads == { t \in RdmaThreads : thread_pc[t] \in {"loop", "collect", "wait"} }

\* A collector thread is running and will keep collecting.
Collecting == AliveThreads # {} /\ ~stop_event

\* C40: whenever a refresh_config_from_env or shutdown call has returned, a
\* collector thread is running (and will keep collecting) if and only if
\* config enabled is true, and at no time is more than one collector
\* thread alive, for every interleaving with a collector function that may
\* still be executing when stop is requested.
C40_CollectorFollowsConfig ==
    /\ Cardinality(AliveThreads) <= 1
    /\ rdma_calls > 0 => (Collecting <=> rdma_enabled)

(***************************************************************************)
(* Specifications                                                          *)
(***************************************************************************)

Init == InitStore /\ InitReg /\ InitTorch /\ InitLoader /\ InitPy
        /\ InitActivator /\ InitRepl /\ InitSampler /\ InitProbe
        /\ InitGuard /\ InitPoller /\ InitImportHook
        /\ InitHook /\ InitMem /\ InitTimer /\ InitInst
        /\ InitRdma

\* The other parts run beside a store left as created, with one config.
InitIdle == Init /\ chunk_size = 1 /\ discard_threshold = 1

SpecStore == Init /\ [][NextStore]_vars

SpecTable == InitIdle /\ [][NextTable]_vars

SpecExt == InitIdle /\ [][NextExt]_vars

SpecTorch == InitIdle /\ [][NextTorch]_vars

SpecLoader == InitIdle /\ [][NextLoader]_vars

SpecPy == InitIdle /\ [][NextPy]_vars

SpecActivator == InitIdle /\ [][NextActivator]_vars

SpecRepl == InitIdle /\ [][NextRepl]_vars

SpecSampler == InitIdle /\ [][NextSampler]_vars

SpecProbe == InitIdle /\ [][NextProbe]_vars

SpecGuard == InitIdle /\ [][NextGuard]_vars

SpecPoller == InitIdle /\ [][NextPoller]_vars

SpecPollerLive == InitIdle /\ [][NextPoller]_vars /\ FairPoller

SpecImportHook == InitIdle /\ [][NextImportHook]_vars

SpecHooks == InitIdle /\ [][NextHooks]_vars

SpecMem == InitIdle /\ [][NextMem]_vars

SpecTimer == InitIdle /\ [][NextTimer]_vars

SpecPending == InitIdle /\ [][NextPending]_vars

SpecInst == InitIdle /\ [][NextInst]_vars

SpecRdma == InitIdle /\ [][NextRdma]_vars

====
